---- MODULE Spec2Model ----
(***************************************************************************)
(* A model of the OGCR specification checker (tools/spec_checker.py).      *)
(*                                                                         *)
(* JSON values are tagged records [t, n, s, c]:                            *)
(*   t  the JSON type: "null", "bool", "num", "str", "list", "obj", and    *)
(*      "absent" for a key that a mapping does not hold;                   *)
(*   n  the value of a number (integers only) or of a bool (0 / 1);        *)
(*   s  the value of a string;                                             *)
(*   c  the members: a sequence of [k, v] pairs, in insertion order for a  *)
(*      mapping (as a Python dict iterates) and with k = "" for a list.    *)
(* Error entries are the strings the code builds.  A call either returns   *)
(* a (valid, errors) pair or raises: kind is "return" or "raise".          *)
(***************************************************************************)
EXTENDS Integers, Sequences, FiniteSets, TLC

VARIABLES
    schemas,    \* self.schemas: the loaded profiles, each with the state of its schema
    phase,      \* "init" before load_schemas ran, "ready" between calls, "done" after a call
    call,       \* the operation that ran last, with its inputs
    result,     \* what that operation returned or raised
    threads,    \* the validate_document calls in progress on the checker, one per thread
    projects_db, \* server: the stored projects by id
    mrv_db,     \* server: the stored MRV reports by id
    request,    \* server: the request handled last
    reply       \* server: the response to it

serverVars == <<projects_db, mrv_db, request, reply>>

vars == <<schemas, phase, call, result, threads, projects_db, mrv_db, request, reply>>

----------------------------------------------------------------------------
(* JSON values *)

Absent == [t |-> "absent", n |-> 0, s |-> "", c |-> <<>>]
Null == [t |-> "null", n |-> 0, s |-> "", c |-> <<>>]
Num(i) == [t |-> "num", n |-> i, s |-> "", c |-> <<>>]
Bool(b) == [t |-> "bool", n |-> IF b THEN 1 ELSE 0, s |-> "", c |-> <<>>]
Str(x) == [t |-> "str", n |-> 0, s |-> x, c |-> <<>>]
KV(key, val) == [k |-> key, v |-> val]
Obj(pairs) == [t |-> "obj", n |-> 0, s |-> "", c |-> pairs]
List(elems) == [t |-> "list", n |-> 0, s |-> "", c |-> [i \in 1..Len(elems) |-> KV("", elems[i])]]

Ch(x, i) == SubSeq(x, i, i)

Range(f) == {f[i] : i \in DOMAIN f}

\* key in d, for a dict d
HasKey(d, key) == \E i \in 1..Len(d.c) : d.c[i].k = key

\* d[key] for a dict d, Absent when the key is missing
Member(d, key) ==
    IF HasKey(d, key)
    THEN d.c[CHOOSE i \in 1..Len(d.c) : d.c[i].k = key].v
    ELSE Absent

\* d.get(key): None when the key is missing
Get(d, key) == IF HasKey(d, key) THEN Member(d, key) ELSE Null

\* d.get(key, default)
GetDefault(d, key, default) == IF HasKey(d, key) THEN Member(d, key) ELSE default

\* bool(v): None, False, 0, "", [] and {} are falsy
Truthy(v) ==
    CASE v.t \in {"absent", "null"} -> FALSE
      [] v.t \in {"bool", "num"} -> v.n # 0
      [] v.t = "str" -> v.s # ""
      [] OTHER -> Len(v.c) > 0

\* isinstance(v, (int, float)): bool is a subclass of int
IsNumber(v) == v.t \in {"num", "bool"}

\* type(v).__name__
TypeName(v) ==
    CASE v.t = "obj" -> "dict"
      [] v.t = "list" -> "list"
      [] v.t = "str" -> "str"
      [] v.t = "num" -> "int"
      [] v.t = "bool" -> "bool"
      [] OTHER -> "NoneType"

----------------------------------------------------------------------------
(* String helpers: what Python's str(), repr(), `in` and re.match compute *)

Digits == {"0", "1", "2", "3", "4", "5", "6", "7", "8", "9"}

DigitStr(d) ==
    CASE d = 0 -> "0" [] d = 1 -> "1" [] d = 2 -> "2" [] d = 3 -> "3"
      [] d = 4 -> "4" [] d = 5 -> "5" [] d = 6 -> "6" [] d = 7 -> "7"
      [] d = 8 -> "8" [] OTHER -> "9"

RECURSIVE NatStr(_)
NatStr(i) == IF i < 10 THEN DigitStr(i) ELSE NatStr(i \div 10) \o DigitStr(i % 10)

\* str(i) for an int
IntStr(i) == IF i < 0 THEN "-" \o NatStr(0 - i) ELSE NatStr(i)

\* part in whole, for two strings
RECURSIVE FindFrom(_, _, _)
FindFrom(whole, part, i) ==
    IF i + Len(part) - 1 > Len(whole) THEN 0
    ELSE IF SubSeq(whole, i, i + Len(part) - 1) = part THEN i
    ELSE FindFrom(whole, part, i + 1)

Contains(whole, part) == FindFrom(whole, part, 1) # 0

StartsWith(whole, part) ==
    Len(part) <= Len(whole) /\ SubSeq(whole, 1, Len(part)) = part

\* repr(v) / str(v): str() of a string is the string, repr() quotes it
RECURSIVE Repr(_)
RECURSIVE ReprItems(_, _, _)
ReprItems(v, i, isDict) ==
    IF i > Len(v.c) THEN ""
    ELSE (IF i > 1 THEN ", " ELSE "")
         \o (IF isDict THEN "'" \o v.c[i].k \o "': " ELSE "")
         \o Repr(v.c[i].v)
         \o ReprItems(v, i + 1, isDict)
Repr(v) ==
    CASE v.t = "str" -> "'" \o v.s \o "'"
      [] v.t = "num" -> IntStr(v.n)
      [] v.t = "bool" -> (IF v.n = 1 THEN "True" ELSE "False")
      [] v.t = "list" -> "[" \o ReprItems(v, 1, FALSE) \o "]"
      [] v.t = "obj" -> "{" \o ReprItems(v, 1, TRUE) \o "}"
      [] OTHER -> "None"

PyStr(v) == IF v.t = "str" THEN v.s ELSE Repr(v)

\* number of leading digits of x from position i
RECURSIVE DigitRun(_, _)
DigitRun(x, i) ==
    IF i <= Len(x) /\ Ch(x, i) \in Digits THEN 1 + DigitRun(x, i + 1) ELSE 0

\* re.match(r'^\d+(\.\d+){k}', x): the position after the match, 0 for no match
RECURSIVE DottedEnd(_, _, _)
DottedEnd(x, i, k) ==
    LET r == DigitRun(x, i) IN
    IF r = 0 THEN 0
    ELSE IF k = 0 THEN i + r
    ELSE IF i + r <= Len(x) /\ Ch(x, i + r) = "." THEN DottedEnd(x, i + r + 1, k - 1)
    ELSE 0

\* `$` matches at the end of the string and before a final newline
AtDollar(x, pos) ==
    pos = Len(x) + 1 \/ (pos = Len(x) /\ Ch(x, pos) = "\n")

\* re.match(r'^\d+\.\d+\.\d+$', x)
MatchesSemver(x) ==
    LET e == DottedEnd(x, 1, 2) IN e # 0 /\ AtDollar(x, e)

\* re.match(r'^\d+\.\d+(\.\d+)?$', x)
MatchesMethodologyVersion(x) ==
    LET e2 == DottedEnd(x, 1, 1)
        e3 == DottedEnd(x, 1, 2)
    IN (e3 # 0 /\ AtDollar(x, e3)) \/ (e2 # 0 /\ AtDollar(x, e2))

----------------------------------------------------------------------------
(* Outcomes of a checker: the error list it returns, or the exception *)

Returns(errs) == [kind |-> "return", errors |-> errs, exc |-> ""]
Raises(e) == [kind |-> "raise", errors |-> <<>>, exc |-> e]

\* F(e), with e evaluated once
Bind(e, F(_)) == CHOOSE r \in {F(v) : v \in {e}} : TRUE

\* errors.extend(checker(document)): the first exception ends the pipeline
Extend(acc, out) ==
    Bind(acc, LAMBDA a :
        IF a.kind = "raise" THEN a
        ELSE Bind(out, LAMBDA o :
                 IF o.kind = "raise" THEN o ELSE Returns(a.errors \o o.errors)))

NoAttribute(v, attr) ==
    "AttributeError: '" \o TypeName(v) \o "' object has no attribute '" \o attr \o "'"
NotIterable(v) ==
    "TypeError: argument of type '" \o TypeName(v) \o "' is not iterable"

----------------------------------------------------------------------------
(* urllib.parse.urlparse, as far as _validate_links reads its result *)

Letters ==
    {"a", "b", "c", "d", "e", "f", "g", "h", "i", "j", "k", "l", "m",
     "n", "o", "p", "q", "r", "s", "t", "u", "v", "w", "x", "y", "z",
     "A", "B", "C", "D", "E", "F", "G", "H", "I", "J", "K", "L", "M",
     "N", "O", "P", "Q", "R", "S", "T", "U", "V", "W", "X", "Y", "Z"}

SchemeChars == Letters \cup Digits \cup {"+", "-", "."}

\* the length of the scheme of url (the text before the first ':'), 0 for none
SchemeLen(url) ==
    LET colon == FindFrom(url, ":", 1) IN
    IF /\ colon > 1
       /\ Ch(url, 1) \in Letters
       /\ \A i \in 1..(colon - 1) : Ch(url, i) \in SchemeChars
    THEN colon - 1
    ELSE 0

\* the first position >= i of url holding '/', '?' or '#', Len(url) + 1 for none
RECURSIVE NetlocEnd(_, _)
NetlocEnd(url, i) ==
    IF i > Len(url) \/ Ch(url, i) \in {"/", "?", "#"} THEN i ELSE NetlocEnd(url, i + 1)

\* [scheme, netloc] of urlparse(url); error is the ValueError of an unbalanced bracket
UrlParse(url) ==
    LET n == SchemeLen(url)
        rest == IF n = 0 THEN url ELSE SubSeq(url, n + 2, Len(url))
        hasNetloc == StartsWith(rest, "//")
        netloc == IF hasNetloc THEN SubSeq(rest, 3, NetlocEnd(rest, 3) - 1) ELSE ""
    IN [scheme |-> SubSeq(url, 1, n),
        netloc |-> netloc,
        error |-> Contains(netloc, "[") # Contains(netloc, "]")]

----------------------------------------------------------------------------
(* The rule checkers *)

GeometryTypes == {"Point", "LineString", "Polygon", "MultiPoint", "MultiLineString", "MultiPolygon"}

\* `key in container` for the containers that support it
InContainer(key, container) ==
    CASE container.t = "obj" -> HasKey(container, key)
      [] container.t = "list" -> \E i \in 1..Len(container.c) : container.c[i].v = Str(key)
      [] OTHER -> Contains(container.s, key)

SupportsIn(v) == v.t \in {"obj", "list", "str"}

\* _detect_document_type
DetectDocumentType(document) ==
    IF document.t # "obj" THEN Raises(NoAttribute(document, "get"))
    ELSE LET profile == GetDefault(document, "profile", Str(""))
             properties == GetDefault(document, "properties", Obj(<<>>))
         IN IF profile = Str("pdd") THEN Returns(<<"pdd">>)
            ELSE IF profile = Str("mrv") THEN Returns(<<"mrv">>)
            ELSE IF ~SupportsIn(properties) THEN Raises(NotIterable(properties))
            ELSE IF InContainer("project_type", properties) THEN Returns(<<"pdd">>)
            ELSE IF InContainer("methodology_data", properties) THEN Returns(<<"mrv">>)
            ELSE Returns(<<"unknown">>)

\* the geometry part of _validate_geojson_compliance
GeometryErrors(document) ==
    LET geometry == Get(document, "geometry") IN
    IF ~Truthy(geometry) THEN Returns(<<"Missing required geometry field">>)
    ELSE IF ~SupportsIn(geometry) THEN Raises(NotIterable(geometry))
    ELSE IF ~InContainer("type", geometry) \/ ~InContainer("coordinates", geometry)
         THEN Returns(<<"Invalid geometry structure">>)
    ELSE IF geometry.t # "obj" THEN Raises(NoAttribute(geometry, "get"))
    ELSE LET geom_type == Get(geometry, "type") IN
         IF geom_type.t = "str" /\ geom_type.s \in GeometryTypes
         THEN Returns(<<>>)
         ELSE Returns(<<"Invalid geometry type: " \o PyStr(geom_type)>>)

\* the bbox part of _validate_geojson_compliance
BboxErrors(document) ==
    LET bbox == Get(document, "bbox") IN
    IF bbox.t = "null" THEN <<>>
    ELSE IF bbox.t # "list" \/ Len(bbox.c) # 4 THEN <<"bbox must be an array of 4 numbers">>
    ELSE IF \E i \in 1..Len(bbox.c) : ~IsNumber(bbox.c[i].v) THEN <<"bbox values must be numbers">>
    ELSE <<>>

\* _validate_geojson_compliance
ValidateGeojsonCompliance(document) ==
    IF document.t # "obj" THEN Raises(NoAttribute(document, "get"))
    ELSE LET typeErrors == IF Get(document, "type") # Str("Feature")
                           THEN <<"Document must be a GeoJSON Feature">>
                           ELSE <<>>
         IN Extend(Extend(Returns(typeErrors), GeometryErrors(document)),
                   Returns(BboxErrors(document)))

\* _validate_ogcr_version
ValidateOgcrVersion(document) ==
    LET version == Get(document, "ogcr_version") IN
    IF ~Truthy(version) THEN Returns(<<"Missing ogcr_version field">>)
    ELSE IF version.t # "str" THEN Raises("TypeError: expected string or bytes-like object")
    ELSE IF ~MatchesSemver(version.s)
         THEN Returns(<<"Invalid ogcr_version format: " \o version.s \o " (must be semantic version)">>)
    ELSE Returns(<<>>)

\* what `for i, link in enumerate(links)` yields: the elements of a list, the keys
\* of a dict, the characters of a string
Iterate(v) ==
    CASE v.t = "list" -> [i \in 1..Len(v.c) |-> v.c[i].v]
      [] v.t = "obj" -> [i \in 1..Len(v.c) |-> Str(v.c[i].k)]
      [] OTHER -> [i \in 1..Len(v.s) |-> Str(Ch(v.s, i))]

\* the body of the loop with `elif 'href' not in link`: a missing href is
\* looked for only when rel is there
LinkErrorsShortCircuit(i, link) ==
    IF link.t # "obj" THEN <<"Link " \o IntStr(i) \o " must be an object">>
    ELSE LET href == Get(link, "href")
             parsed == UrlParse(href.s)
         IN (IF ~HasKey(link, "rel")
             THEN <<"Link " \o IntStr(i) \o " missing required 'rel' field">>
             ELSE IF ~HasKey(link, "href")
             THEN <<"Link " \o IntStr(i) \o " missing required 'href' field">> ELSE <<>>)
            \o (IF /\ Truthy(href)
                   /\ \/ href.t # "str"
                      \/ parsed.error
                      \/ parsed.scheme = ""
                      \/ parsed.netloc = ""
                THEN <<"Link " \o IntStr(i) \o " href is not a valid URL: " \o PyStr(href)>>
                ELSE <<>>)

\* the body of the loop of _validate_links for the link at (0-based) index i
LinkErrors(i, link) ==
    IF link.t # "obj" THEN <<"Link " \o IntStr(i) \o " must be an object">>
    ELSE LET href == Get(link, "href")
             parsed == UrlParse(href.s)
         IN (IF ~HasKey(link, "rel")
             THEN <<"Link " \o IntStr(i) \o " missing required 'rel' field">> ELSE <<>>)
            \o (IF ~HasKey(link, "href")
                THEN <<"Link " \o IntStr(i) \o " missing required 'href' field">> ELSE <<>>)
            \o (IF /\ Truthy(href)
                   /\ \/ href.t # "str"
                      \/ parsed.error
                      \/ parsed.scheme = ""
                      \/ parsed.netloc = ""
                THEN <<"Link " \o IntStr(i) \o " href is not a valid URL: " \o PyStr(href)>>
                ELSE <<>>)

RECURSIVE LinksLoop(_, _)
LinksLoop(items, i) ==
    IF i > Len(items) THEN <<>>
    ELSE LinkErrors(i - 1, items[i]) \o LinksLoop(items, i + 1)

\* _validate_links
ValidateLinks(document) ==
    LET links == GetDefault(document, "links", List(<<>>)) IN
    IF ~Truthy(links) THEN Returns(<<>>)
    ELSE IF ~SupportsIn(links) THEN Raises("TypeError: '" \o TypeName(links) \o "' object is not iterable")
    ELSE Returns(LinksLoop(Iterate(links), 1))

----------------------------------------------------------------------------
(* datetime.fromisoformat and datetime.strptime(_, '%Y-%m-%d') *)

DigitVal(d) ==
    CASE d = "0" -> 0 [] d = "1" -> 1 [] d = "2" -> 2 [] d = "3" -> 3
      [] d = "4" -> 4 [] d = "5" -> 5 [] d = "6" -> 6 [] d = "7" -> 7
      [] d = "8" -> 8 [] OTHER -> 9

\* int(x) for a string of digits
RECURSIVE StrNat(_)
StrNat(x) ==
    IF Len(x) = 0 THEN 0
    ELSE 10 * StrNat(SubSeq(x, 1, Len(x) - 1)) + DigitVal(Ch(x, Len(x)))

AllDigits(x) == \A i \in 1..Len(x) : Ch(x, i) \in Digits

IsLeap(y) == (y % 4 = 0 /\ y % 100 # 0) \/ y % 400 = 0

DaysIn(y, m) ==
    IF m = 2 THEN (IF IsLeap(y) THEN 29 ELSE 28)
    ELSE IF m \in {4, 6, 9, 11} THEN 30 ELSE 31

ValidDate(y, m, d) == y >= 1 /\ m \in 1..12 /\ d >= 1 /\ d <= DaysIn(y, m)

\* s.replace('Z', '+00:00')
RECURSIVE ReplaceZ(_)
ReplaceZ(x) ==
    IF Len(x) = 0 THEN ""
    ELSE (IF Ch(x, 1) = "Z" THEN "+00:00" ELSE Ch(x, 1)) \o ReplaceZ(SubSeq(x, 2, Len(x)))

\* HH[:MM[:SS]] with an optional +HH:MM or -HH:MM offset
IsoTimeOk(x) ==
    LET signAt == IF FindFrom(x, "+", 1) # 0 THEN FindFrom(x, "+", 1) ELSE FindFrom(x, "-", 1)
        clock == IF signAt = 0 THEN x ELSE SubSeq(x, 1, signAt - 1)
        offset == IF signAt = 0 THEN "" ELSE SubSeq(x, signAt + 1, Len(x))
        TwoDigits(y, hi) == Len(y) = 2 /\ AllDigits(y) /\ StrNat(y) <= hi
        clockOk ==
            /\ Len(clock) \in {2, 5, 8}
            /\ TwoDigits(SubSeq(clock, 1, 2), 23)
            /\ Len(clock) >= 5 => (Ch(clock, 3) = ":" /\ TwoDigits(SubSeq(clock, 4, 5), 59))
            /\ Len(clock) = 8 => (Ch(clock, 6) = ":" /\ TwoDigits(SubSeq(clock, 7, 8), 59))
        offsetOk ==
            /\ Len(offset) = 5
            /\ TwoDigits(SubSeq(offset, 1, 2), 23)
            /\ Ch(offset, 3) = ":"
            /\ TwoDigits(SubSeq(offset, 4, 5), 59)
    IN clockOk /\ (signAt = 0 \/ offsetOk)

\* datetime.fromisoformat(x) does not raise ValueError (the grammar of Python 3.7
\* to 3.10: YYYY-MM-DD, then optionally one separator character and a time)
FromIsoFormatOk(x) ==
    /\ Len(x) >= 10
    /\ AllDigits(SubSeq(x, 1, 4)) /\ Ch(x, 5) = "-"
    /\ AllDigits(SubSeq(x, 6, 7)) /\ Ch(x, 8) = "-"
    /\ AllDigits(SubSeq(x, 9, 10))
    /\ ValidDate(StrNat(SubSeq(x, 1, 4)), StrNat(SubSeq(x, 6, 7)), StrNat(SubSeq(x, 9, 10)))
    /\ (Len(x) = 10 \/ (Len(x) >= 12 /\ IsoTimeOk(SubSeq(x, 12, Len(x)))))

\* the length of the text the strptime directive %m or %d takes at position i of
\* x (two digits when they form a value of 1..hi, else one digit 1..9), 0 for none
FieldLen(x, i, hi) ==
    LET two == SubSeq(x, i, i + 1) IN
    IF i + 1 <= Len(x) /\ AllDigits(two) /\ StrNat(two) >= 1 /\ StrNat(two) <= hi THEN 2
    ELSE IF i <= Len(x) /\ Ch(x, i) \in (Digits \ {"0"}) THEN 1
    ELSE 0

\* datetime.strptime(x, '%Y-%m-%d'): [ok, y, m, d] or the ValueError's message
StrpTime(x) ==
    LET ml == FieldLen(x, 6, 12)
        dl == FieldLen(x, 6 + ml + 1, 31)
        matched ==
            /\ Len(x) >= 8
            /\ AllDigits(SubSeq(x, 1, 4)) /\ Ch(x, 5) = "-"
            /\ ml > 0 /\ Ch(x, 6 + ml) = "-" /\ dl > 0
        end == 6 + ml + dl
        y == StrNat(SubSeq(x, 1, 4))
        m == StrNat(SubSeq(x, 6, 5 + ml))
        d == StrNat(SubSeq(x, 7 + ml, 6 + ml + dl))
    IN IF ~matched
       THEN [ok |-> FALSE, y |-> 0, m |-> 0, d |-> 0,
             msg |-> "time data " \o Repr(Str(x)) \o " does not match format '%Y-%m-%d'"]
       ELSE IF end < Len(x)
       THEN [ok |-> FALSE, y |-> 0, m |-> 0, d |-> 0,
             msg |-> "unconverted data remains: " \o SubSeq(x, end + 1, Len(x))]
       ELSE IF y = 0
       THEN [ok |-> FALSE, y |-> 0, m |-> 0, d |-> 0, msg |-> "year 0 is out of range"]
       ELSE IF d > DaysIn(y, m)
       THEN [ok |-> FALSE, y |-> 0, m |-> 0, d |-> 0, msg |-> "day is out of range for month"]
       ELSE [ok |-> TRUE, y |-> y, m |-> m, d |-> d, msg |-> ""]

\* start >= end for two parsed dates
DateGeq(a, b) ==
    \/ a.y > b.y
    \/ a.y = b.y /\ a.m > b.m
    \/ a.y = b.y /\ a.m = b.m /\ a.d >= b.d

----------------------------------------------------------------------------
(* The profile-specific rule checkers *)

\* a < b in Python: numbers (and bools) compare, a number against a str, list,
\* dict or None raises TypeError
Comparable(a, b) == IsNumber(a) /\ IsNumber(b)

NotSupported(op, a, b) ==
    "TypeError: '" \o op \o "' not supported between instances of '"
        \o TypeName(a) \o "' and '" \o TypeName(b) \o "'"

\* the creation_date part of _validate_pdd_specific
CreationDateErrors(properties) ==
    LET creation_date == Get(properties, "creation_date") IN
    IF ~Truthy(creation_date) THEN Returns(<<>>)
    ELSE IF creation_date.t # "str" THEN Raises(NoAttribute(creation_date, "replace"))
    ELSE IF ~FromIsoFormatOk(ReplaceZ(creation_date.s))
         THEN Returns(<<"Invalid creation_date format: " \o creation_date.s>>)
    ELSE Returns(<<>>)

\* the methodology part of _validate_pdd_specific
MethodologyErrors(properties) ==
    LET methodology == Get(properties, "methodology")
        version == Get(methodology, "version")
    IN IF ~Truthy(methodology) THEN Returns(<<>>)
       ELSE IF methodology.t # "obj" THEN Returns(<<"Methodology must be an object">>)
       ELSE Extend(
              Returns((IF ~HasKey(methodology, "id")
                       THEN <<"Methodology missing required 'id' field">> ELSE <<>>)
                      \o (IF ~HasKey(methodology, "version")
                          THEN <<"Methodology missing required 'version' field">> ELSE <<>>)),
              IF ~Truthy(version) THEN Returns(<<>>)
              ELSE IF version.t # "str" THEN Raises("TypeError: expected string or bytes-like object")
              ELSE IF ~MatchesMethodologyVersion(version.s)
                   THEN Returns(<<"Invalid methodology version format: " \o version.s>>)
              ELSE Returns(<<>>))

\* the expected_annual_benefit part with benefit <= 0 for benefit < 0
BenefitMustBePositive(properties) ==
    LET benefit == Get(properties, "expected_annual_benefit") IN
    IF benefit.t = "null" THEN Returns(<<>>)
    ELSE IF ~Comparable(benefit, Num(0)) THEN Raises(NotSupported("<=", benefit, Num(0)))
    ELSE IF benefit.n <= 0 THEN Returns(<<"expected_annual_benefit must be non-negative">>)
    ELSE Returns(<<>>)

\* the expected_annual_benefit part of _validate_pdd_specific
BenefitErrors(properties) ==
    LET benefit == Get(properties, "expected_annual_benefit") IN
    IF benefit.t = "null" THEN Returns(<<>>)
    ELSE IF ~Comparable(benefit, Num(0)) THEN Raises(NotSupported("<", benefit, Num(0)))
    ELSE IF benefit.n < 0 THEN Returns(<<"expected_annual_benefit must be non-negative">>)
    ELSE Returns(<<>>)

\* _validate_pdd_specific
ValidatePddSpecific(document) ==
    LET properties == GetDefault(document, "properties", Obj(<<>>)) IN
    IF properties.t # "obj" THEN Raises(NoAttribute(properties, "get"))
    ELSE Extend(Extend(CreationDateErrors(properties), MethodologyErrors(properties)),
                BenefitErrors(properties))

\* the date range part of _validate_mrv_specific
DateRangeErrors(properties) ==
    LET start_date == Get(properties, "start_date")
        end_date == Get(properties, "end_date")
        start == StrpTime(start_date.s)
        end == StrpTime(end_date.s)
    IN IF ~(Truthy(start_date) /\ Truthy(end_date)) THEN Returns(<<>>)
       ELSE IF start_date.t # "str"
            THEN Raises("TypeError: strptime() argument 1 must be str, not " \o TypeName(start_date))
       ELSE IF ~start.ok THEN Returns(<<"Invalid date format: " \o start.msg>>)
       ELSE IF end_date.t # "str"
            THEN Raises("TypeError: strptime() argument 1 must be str, not " \o TypeName(end_date))
       ELSE IF ~end.ok THEN Returns(<<"Invalid date format: " \o end.msg>>)
       ELSE IF DateGeq(start, end) THEN Returns(<<"start_date must be before end_date">>)
       ELSE Returns(<<>>)

ValidUnits == <<"tCO2e", "kgCO2e", "tCO2", "kgCO2">>

\* the net_removal_estimate part of _validate_mrv_specific
EstimateErrors(properties) ==
    LET estimate == Get(properties, "net_removal_estimate")
        value == Get(estimate, "value")
        unit == Get(estimate, "unit")
    IN IF ~Truthy(estimate) THEN Returns(<<>>)
       ELSE IF estimate.t # "obj" THEN Returns(<<"net_removal_estimate must be an object">>)
       ELSE Extend(
              IF value.t = "null" THEN Returns(<<>>)
              ELSE IF ~Comparable(value, Num(0)) THEN Raises(NotSupported("<", value, Num(0)))
              ELSE IF value.n < 0 THEN Returns(<<"net_removal_estimate value must be non-negative">>)
              ELSE Returns(<<>>),
              IF Truthy(unit) /\ ~(unit.t = "str" /\ unit.s \in Range(ValidUnits))
              THEN Returns(<<"Invalid unit: " \o PyStr(unit) \o " (must be one of "
                             \o Repr(List([i \in 1..Len(ValidUnits) |-> Str(ValidUnits[i])])) \o ")">>)
              ELSE Returns(<<>>))

\* the total_uncertainty part with confidence_level checked against the open
\* interval: not (0 < confidence < 1)
UncertaintyOpenInterval(properties) ==
    LET uncertainty == Get(properties, "total_uncertainty")
        min_val == Get(uncertainty, "min")
        max_val == Get(uncertainty, "max")
        confidence == Get(uncertainty, "confidence_level")
    IN IF ~Truthy(uncertainty) THEN Returns(<<>>)
       ELSE IF uncertainty.t # "obj" THEN Returns(<<"total_uncertainty must be an object">>)
       ELSE Extend(
              IF min_val.t = "null" \/ max_val.t = "null" THEN Returns(<<>>)
              ELSE IF ~Comparable(min_val, max_val) THEN Raises(NotSupported(">", min_val, max_val))
              ELSE IF min_val.n > max_val.n THEN Returns(<<"uncertainty min must be <= max">>)
              ELSE Returns(<<>>),
              IF confidence.t = "null" THEN Returns(<<>>)
              ELSE IF ~Comparable(Num(0), confidence) THEN Raises(NotSupported("<", Num(0), confidence))
              ELSE IF ~(0 < confidence.n /\ confidence.n < 1)
                   THEN Returns(<<"confidence_level must be between 0 and 1">>)
              ELSE Returns(<<>>))

\* the total_uncertainty part of _validate_mrv_specific
UncertaintyErrors(properties) ==
    LET uncertainty == Get(properties, "total_uncertainty")
        min_val == Get(uncertainty, "min")
        max_val == Get(uncertainty, "max")
        confidence == Get(uncertainty, "confidence_level")
    IN IF ~Truthy(uncertainty) THEN Returns(<<>>)
       ELSE IF uncertainty.t # "obj" THEN Returns(<<"total_uncertainty must be an object">>)
       ELSE Extend(
              IF min_val.t = "null" \/ max_val.t = "null" THEN Returns(<<>>)
              ELSE IF ~Comparable(min_val, max_val) THEN Raises(NotSupported(">", min_val, max_val))
              ELSE IF min_val.n > max_val.n THEN Returns(<<"uncertainty min must be <= max">>)
              ELSE Returns(<<>>),
              IF confidence.t = "null" THEN Returns(<<>>)
              ELSE IF ~Comparable(Num(0), confidence) THEN Raises(NotSupported("<=", Num(0), confidence))
              ELSE IF ~(0 <= confidence.n /\ confidence.n <= 1)
                   THEN Returns(<<"confidence_level must be between 0 and 1">>)
              ELSE Returns(<<>>))

\* _validate_mrv_specific
ValidateMrvSpecific(document) ==
    LET properties == GetDefault(document, "properties", Obj(<<>>)) IN
    IF properties.t # "obj" THEN Raises(NoAttribute(properties, "get"))
    ELSE Extend(Extend(DateRangeErrors(properties), EstimateErrors(properties)),
                UncertaintyErrors(properties))

\* _validate_ogcr_requirements calling _validate_links before
\* _validate_ogcr_version
RequirementsLinksFirst(document, doc_type) ==
    LET common == Extend(Extend(ValidateGeojsonCompliance(document),
                                ValidateLinks(document)),
                         ValidateOgcrVersion(document))
    IN IF doc_type = "pdd" THEN Extend(common, ValidatePddSpecific(document))
       ELSE IF doc_type = "mrv" THEN Extend(common, ValidateMrvSpecific(document))
       ELSE common

\* _validate_ogcr_requirements
ValidateOgcrRequirements(document, doc_type) ==
    LET common == Extend(Extend(ValidateGeojsonCompliance(document),
                                ValidateOgcrVersion(document)),
                         ValidateLinks(document))
    IN IF doc_type = "pdd" THEN Extend(common, ValidatePddSpecific(document))
       ELSE IF doc_type = "mrv" THEN Extend(common, ValidateMrvSpecific(document))
       ELSE common

----------------------------------------------------------------------------
(* The orchestrator *)

\* What jsonschema.validate(document, schema) meets, an input of a call:
\* [schemaError |-> the message of the SchemaError of a schema that is itself
\* invalid, "" for none; violations |-> the violations the engine finds in the
\* document, each a [msg |-> message, path |-> names leading to the member]].
Found(violations) == [schemaError |-> "", violations |-> violations]
BadSchema == [schemaError |-> "True is not of type 'object'", violations |-> <<>>]

\* ' -> '.join(str(p) for p in e.path)
RECURSIVE JoinPath(_)
JoinPath(path) ==
    IF Len(path) = 0 THEN ""
    ELSE IF Len(path) = 1 THEN path[1]
    ELSE path[1] \o " -> " \o JoinPath(Tail(path))

\* jsonschema.validate raises best_match(errors): the first of the violations
\* with the shortest path; 0 when there is none
BestMatch(violations) ==
    IF Len(violations) = 0 THEN 0
    ELSE CHOOSE i \in 1..Len(violations) :
           /\ \A j \in 1..Len(violations) : Len(violations[i].path) <= Len(violations[j].path)
           /\ \A j \in 1..(i - 1) : Len(violations[j].path) > Len(violations[i].path)

\* the try block of validate_document around jsonschema.validate
StructuralErrors(found) ==
    IF found.schemaError # "" THEN <<"Schema error: " \o found.schemaError>>
    ELSE IF BestMatch(found.violations) = 0 THEN <<>>
    ELSE LET e == found.violations[BestMatch(found.violations)] IN
         <<"Schema validation error: " \o e.msg>>
         \o (IF Len(e.path) > 0 THEN <<"  Path: " \o JoinPath(e.path)>> ELSE <<>>)

\* what a call gave: a (valid, errors) result, the exception that left the
\* call, or the value of a method that returns a string
Result(valid, errors) ==
    [kind |-> "return", valid |-> valid, errors |-> errors, exc |-> "", value |-> ""]
Raised(e) == [kind |-> "raise", valid |-> FALSE, errors |-> <<>>, exc |-> e, value |-> ""]
Value(x) == [kind |-> "value", valid |-> FALSE, errors |-> <<>>, exc |-> "", value |-> x]
NoResult == [kind |-> "none", valid |-> FALSE, errors |-> <<>>, exc |-> "", value |-> ""]

\* the profile validate_document resolves: doc_type, or the detected one
ResolveDocType(document, doc_type) ==
    IF doc_type.t = "null" THEN DetectDocumentType(document) ELSE Returns(<<doc_type.s>>)

\* validate_document deciding valid before the rules of
\* _validate_ogcr_requirements are added to errors
ValidateValidBeforeRules(loaded, document, doc_type, found) ==
    Bind(ResolveDocType(document, doc_type), LAMBDA resolved :
        IF resolved.kind = "raise" THEN Raised(resolved.exc)
        ELSE LET profile == resolved.errors[1] IN
             IF profile \notin DOMAIN loaded
             THEN Result(FALSE, <<"Unknown document type: " \o profile>>)
             ELSE Bind(Extend(Returns(StructuralErrors(found)),
                              ValidateOgcrRequirements(document, profile)),
                       LAMBDA all :
                          IF all.kind = "raise" THEN Raised(all.exc)
                          ELSE Result(Len(StructuralErrors(found)) = 0, all.errors)))

\* validate_document without the return after "Unknown document type": the
\* rules run on, and the schema engine is not asked for want of a schema
ValidateNoEarlyReturn(loaded, document, doc_type, found) ==
    Bind(ResolveDocType(document, doc_type), LAMBDA resolved :
        IF resolved.kind = "raise" THEN Raised(resolved.exc)
        ELSE LET profile == resolved.errors[1]
                 first == IF profile \notin DOMAIN loaded
                          THEN <<"Unknown document type: " \o profile>>
                          ELSE StructuralErrors(found)
             IN Bind(Extend(Returns(first), ValidateOgcrRequirements(document, profile)),
                     LAMBDA all :
                        IF all.kind = "raise" THEN Raised(all.exc)
                        ELSE Result(Len(all.errors) = 0, all.errors)))

\* validate_document(document, doc_type) on a checker holding loaded
Validate(loaded, document, doc_type, found) ==
    Bind(ResolveDocType(document, doc_type), LAMBDA resolved :
        IF resolved.kind = "raise" THEN Raised(resolved.exc)
        ELSE LET profile == resolved.errors[1] IN
             IF profile \notin DOMAIN loaded
             THEN Result(FALSE, <<"Unknown document type: " \o profile>>)
             ELSE Bind(Extend(Returns(StructuralErrors(found)),
                              ValidateOgcrRequirements(document, profile)),
                       LAMBDA all :
                          IF all.kind = "raise" THEN Raised(all.exc)
                          ELSE Result(Len(all.errors) = 0, all.errors)))

\* load_schemas: the mapping once the two schema files were read.  A file is
\* "missing", "broken" (not JSON) or "valid"; json.load raising on the first
\* file leaves the try block before the second is looked at
LoadedSchemas(before, fileState) ==
    LET withPdd == IF fileState.pdd = "valid"
                   THEN [p \in DOMAIN before \cup {"pdd"} |->
                            IF p = "pdd" THEN "pdd-schema.json" ELSE before[p]]
                   ELSE before
        withMrv == IF fileState.mrv = "valid"
                   THEN [p \in DOMAIN withPdd \cup {"mrv"} |->
                            IF p = "mrv" THEN "mrv-schema.json" ELSE withPdd[p]]
                   ELSE withPdd
    IN IF fileState.pdd = "broken" THEN before ELSE withMrv

----------------------------------------------------------------------------
(* validate_file and validate_api_endpoint *)

\* f"{e}" of an exception written as "Class: message": the message alone
ExcMessage(exc) == SubSeq(exc, FindFrom(exc, ": ", 1) + 2, Len(exc))

\* validate_file(path): the file is "missing", "invalid" (not JSON) or "json"
ValidateFileResult(loaded, file, path, document, found) ==
    IF file = "missing" THEN Result(FALSE, <<"File not found: " \o path>>)
    ELSE IF file = "invalid"
         THEN Result(FALSE, <<"Invalid JSON: Expecting value: line 1 column 1 (char 0)">>)
    ELSE Bind(Validate(loaded, document, Null, found), LAMBDA r :
            IF r.kind = "raise" THEN Result(FALSE, <<"Error reading file: " \o ExcMessage(r.exc)>>)
            ELSE r)

\* [f"Item {i}: {err}" for err in item_errors]
PrefixItem(i, errors) == [j \in 1..Len(errors) |-> "Item " \o IntStr(i) \o ": " \o errors[j]]

\* what the schema engine meets in the i-th document of a call
FoundAt(founds, i) == IF i <= Len(founds) THEN founds[i] ELSE Found(<<>>)

\* the loop of validate_api_endpoint from the item at position i on, with the
\* all_valid and errors it has so far
RECURSIVE ItemsLoop(_, _, _, _, _)
ItemsLoop(loaded, items, founds, i, acc) ==
    IF i > Len(items) THEN acc
    ELSE IF ~(items[i].t = "obj" /\ Get(items[i], "type") = Str("Feature"))
         THEN ItemsLoop(loaded, items, founds, i + 1, acc)
    ELSE Bind(Validate(loaded, items[i], Null, FoundAt(founds, i)), LAMBDA r :
            IF r.kind = "raise" THEN r
            ELSE IF r.valid THEN ItemsLoop(loaded, items, founds, i + 1, acc)
            ELSE ItemsLoop(loaded, items, founds, i + 1,
                           Result(FALSE, acc.errors \o PrefixItem(i - 1, r.errors))))

\* validate_api_endpoint parsing the body before it looks at the status
ValidateApiParsesFirst(loaded, response, founds) ==
    LET data == response.body IN
    IF response.net = "error" THEN Result(FALSE, <<"Request error: " \o response.reason>>)
    ELSE IF ~response.json THEN Result(FALSE, <<"Response is not valid JSON">>)
    ELSE IF data.t = "obj" /\ Get(data, "type") = Str("Feature")
         THEN Validate(loaded, data, Null, FoundAt(founds, 1))
    ELSE IF response.status # 200
         THEN Result(FALSE, <<"HTTP " \o IntStr(response.status) \o ": " \o response.reason>>)
    ELSE Result(TRUE, <<>>)

\* validate_api_endpoint: response is what requests.get gave
\* [net |-> "ok" or "error", status, reason, json |-> the body parses, body]
ValidateApiResult(loaded, response, founds) ==
    LET data == response.body IN
    IF response.net = "error" THEN Result(FALSE, <<"Request error: " \o response.reason>>)
    ELSE IF response.status # 200
         THEN Result(FALSE, <<"HTTP " \o IntStr(response.status) \o ": " \o response.reason>>)
    ELSE IF ~response.json THEN Result(FALSE, <<"Response is not valid JSON">>)
    ELSE IF data.t = "obj" /\ Get(data, "type") = Str("Feature")
         THEN Validate(loaded, data, Null, FoundAt(founds, 1))
    ELSE IF data.t = "obj" /\ HasKey(data, "data")
         THEN IF ~SupportsIn(Member(data, "data"))
              THEN Raised("TypeError: '" \o TypeName(Member(data, "data")) \o "' object is not iterable")
              ELSE ItemsLoop(loaded, Iterate(Member(data, "data")), founds, 1, Result(TRUE, <<>>))
    ELSE Result(TRUE, <<>>)

----------------------------------------------------------------------------
(* generate_compliance_report and main *)

\* "\n".join(lines)
RECURSIVE JoinLines(_)
JoinLines(lines) ==
    IF Len(lines) = 0 THEN ""
    ELSE IF Len(lines) = 1 THEN lines[1]
    ELSE lines[1] \o "\n" \o JoinLines(Tail(lines))

\* an entry of the results list
TestResult(name, valid, errors) == [name |-> name, valid |-> valid, errors |-> errors]

\* sum(1 for r in results if r['valid'])
RECURSIVE PassedTests(_)
PassedTests(results) ==
    IF Len(results) = 0 THEN 0
    ELSE (IF results[1].valid THEN 1 ELSE 0) + PassedTests(Tail(results))

\* the report lines of one result
ResultLines(r) ==
    <<"[" \o (IF r.valid THEN "PASS" ELSE "FAIL") \o "] " \o r.name>>
    \o (IF ~r.valid /\ Len(r.errors) > 0
        THEN [j \in 1..Len(r.errors) |-> "  - " \o r.errors[j]]
        ELSE <<>>)
    \o <<"">>

\* the report loop giving up at the first result that failed
RECURSIVE ReportLoopStopsAtFailure(_)
ReportLoopStopsAtFailure(results) ==
    IF Len(results) = 0 THEN <<>>
    ELSE IF ~results[1].valid THEN ResultLines(results[1])
    ELSE ResultLines(results[1]) \o ReportLoopStopsAtFailure(Tail(results))

\* the loop `for result in results` of generate_compliance_report
RECURSIVE ReportLoop(_)
ReportLoop(results) ==
    IF Len(results) = 0 THEN <<>>
    ELSE ResultLines(results[1]) \o ReportLoop(Tail(results))

\* generate_compliance_report(results), now being datetime.now().isoformat()
GenerateComplianceReport(results, now) ==
    JoinLines(<<"OGCR API Specification Compliance Report",
                "==================================================",
                "Generated: " \o now,
                "",
                "Summary: " \o NatStr(PassedTests(results)) \o "/" \o NatStr(Len(results))
                    \o " tests passed",
                "">>
              \o ReportLoop(results))

\* how main ends: the exit code of the process, the results it collected and
\* the report it wrote (Null for none)
Exit(code, results, report) ==
    [kind |-> "exit", valid |-> code = 0, errors |-> <<>>, exc |-> "",
     value |-> [code |-> code, results |-> results, report |-> report]]

\* the endpoints main validates
EndpointsOf(args) ==
    IF Truthy(args.endpoint) THEN <<args.endpoint.s>> ELSE <<"/health", "/projects">>

\* the loop `for endpoint in endpoints` of main from position i on
RECURSIVE EndpointsLoop(_, _, _, _, _, _)
EndpointsLoop(loaded, api, endpoints, responses, i, results) ==
    IF i > Len(endpoints) THEN Value(results)
    ELSE Bind(ValidateApiResult(loaded, responses[i], <<>>), LAMBDA r :
            IF r.kind = "raise" THEN r
            ELSE EndpointsLoop(loaded, api, endpoints, responses, i + 1,
                               Append(results, TestResult("API: " \o api \o endpoints[i],
                                                          r.valid, r.errors))))

\* main from `results = []` to the results it collects
CollectResults(loaded, args, file, document, responses) ==
    IF Truthy(args.file)
    THEN Bind(ValidateFileResult(loaded, file, args.file.s, document, Found(<<>>)), LAMBDA r :
            Value(<<TestResult("File: " \o args.file.s, r.valid, r.errors)>>))
    ELSE IF Truthy(args.api)
         THEN EndpointsLoop(loaded, args.api.s, EndpointsOf(args), responses, 1, <<>>)
    ELSE Value(<<>>)

\* main: an exception nobody catches ends the process with exit code 1
MainResult(files, args, file, document, responses, now) ==
    LET loaded == LoadedSchemas(<<>>, files) IN
    IF ~Truthy(args.file) /\ ~Truthy(args.api) THEN Exit(1, <<>>, Null)
    ELSE Bind(CollectResults(loaded, args, file, document, responses), LAMBDA c :
            IF c.kind = "raise" THEN c
            ELSE LET results == c.value
                     report == IF Truthy(args.report)
                               THEN Str(GenerateComplianceReport(results, now))
                               ELSE Null
                 IN IF \E i \in 1..Len(results) : ~results[i].valid
                    THEN Exit(1, results, report)
                    ELSE Exit(0, results, report))

----------------------------------------------------------------------------
(* The inputs: the documents of the test suite, and edits of them *)

Polygon ==
    Obj(<<KV("type", Str("Polygon")),
          KV("coordinates", List(<<List(<<List(<<Num(0), Num(0)>>), List(<<Num(1), Num(0)>>),
                                         List(<<Num(1), Num(1)>>), List(<<Num(0), Num(1)>>),
                                         List(<<Num(0), Num(0)>>)>>)>>))>>)

\* valid_pdd of the test fixture
ValidPdd ==
    Obj(<<KV("type", Str("Feature")),
          KV("id", Str("test_project")),
          KV("ogcr_version", Str("0.1.0")),
          KV("profile", Str("pdd")),
          KV("geometry", Polygon),
          KV("properties",
             Obj(<<KV("name", Str("Test Project")),
                   KV("creation_date", Str("2024-12-07T10:00:00Z")),
                   KV("project_type", Str("afforestation")),
                   KV("status", Str("draft")),
                   KV("actor_id", Str("test-actor"))>>))>>)

\* valid_mrv of the test fixture
ValidMrv ==
    Obj(<<KV("type", Str("Feature")),
          KV("id", Str("test_mrv")),
          KV("ogcr_version", Str("0.1.0")),
          KV("profile", Str("mrv")),
          KV("geometry", Obj(<<KV("type", Str("Point")),
                               KV("coordinates", List(<<Num(0), Num(0)>>))>>)),
          KV("properties",
             Obj(<<KV("project_id", Str("test_project")),
                   KV("methodology_id", Str("test_methodology")),
                   KV("start_date", Str("2024-01-01")),
                   KV("end_date", Str("2024-12-31")),
                   KV("methodology_data", Obj(<<KV("sampling_strategy", Str("Random"))>>)),
                   KV("net_removal_estimate",
                      Obj(<<KV("value", Num(1000)), KV("unit", Str("tCO2e"))>>))>>))>>)

\* d with d[key] = val; val = Absent deletes the key
RECURSIVE Without(_, _)
Without(pairs, key) ==
    IF Len(pairs) = 0 THEN <<>>
    ELSE IF pairs[1].k = key THEN Without(Tail(pairs), key)
    ELSE <<pairs[1]>> \o Without(Tail(pairs), key)

SetKey(d, key, val) ==
    IF val = Absent THEN Obj(Without(d.c, key))
    ELSE IF HasKey(d, key)
         THEN Obj([i \in 1..Len(d.c) |-> IF d.c[i].k = key THEN KV(key, val) ELSE d.c[i]])
    ELSE Obj(Append(d.c, KV(key, val)))

SetProp(d, key, val) == SetKey(d, "properties", SetKey(Member(d, "properties"), key, val))

\* the edits of a top-level member, as <<key, value>>
TopEdits ==
    {<<"type", Absent>>, <<"type", Str("InvalidType")>>,
     <<"ogcr_version", Absent>>, <<"ogcr_version", Str("invalid-version")>>,
     <<"ogcr_version", Num(1)>>,
     <<"profile", Absent>>,
     <<"geometry", Absent>>,
     <<"geometry", Obj(<<KV("type", Str("InvalidGeometry")), KV("coordinates", List(<<>>))>>)>>,
     <<"geometry", Obj(<<KV("type", Str("InvalidGeometry"))>>)>>,
     <<"geometry", Num(5)>>,
     <<"bbox", List(<<Num(0), Num(0), Num(1)>>)>>,
     <<"links", List(<<Obj(<<KV("href", Str("https://example.com"))>>)>>)>>,
     <<"links", List(<<Str("x"), Obj(<<KV("rel", Str("self")), KV("href", Str("not-a-url"))>>)>>)>>,
     <<"links", Obj(<<KV("rel", Str("self")), KV("href", Str("https://example.com"))>>)>>,
     <<"links", Num(5)>>,
     <<"properties", Absent>>, <<"properties", Null>>}

\* the edits of a member of properties in a pdd document
PddEdits ==
    {<<"project_type", Absent>>,
     <<"methodology_data", Obj(<<>>)>>,
     <<"creation_date", Str("invalid-date")>>, <<"creation_date", Num(5)>>,
     <<"methodology", Obj(<<KV("id", Str("test")), KV("version", Str("invalid-version"))>>)>>,
     <<"methodology", Obj(<<KV("version", Num(1))>>)>>,
     <<"expected_annual_benefit", Num(-5)>>,
     <<"expected_annual_benefit", Str("x")>>}

\* the edits of a member of properties in an mrv document
MrvEdits ==
    {<<"methodology_data", Absent>>,
     <<"project_type", Str("afforestation")>>,
     <<"start_date", Str("2024-12-31")>>, <<"start_date", Num(5)>>,
     <<"net_removal_estimate", Obj(<<KV("value", Num(-100)), KV("unit", Str("invalid_unit"))>>)>>,
     <<"net_removal_estimate", Obj(<<KV("value", Str("x"))>>)>>,
     <<"total_uncertainty", Obj(<<KV("min", Num(1000)), KV("max", Num(500)), KV("confidence_level", Num(2))>>)>>,
     <<"total_uncertainty", Obj(<<KV("min", Str("a")), KV("max", Num(1))>>)>>}

\* the documents one edit away from d; propEdits are the edits of its properties
EditsOf(d, propEdits) ==
    {SetKey(d, e[1], e[2]) : e \in TopEdits}
    \cup (IF Member(d, "properties").t = "obj"
          THEN {SetProp(d, e[1], e[2]) : e \in propEdits}
          ELSE {})

\* how many edits away from a call of the test suite a call may be
MaxEdits == 2

RECURSIVE Edited(_, _, _)
Edited(docs, propEdits, n) ==
    IF n = 0 THEN docs
    ELSE Edited(docs \cup UNION {EditsOf(d, propEdits) : d \in docs}, propEdits, n - 1)

\* documents that are not a mapping
OtherDocs == {Null, Num(5), Str("Feature"), List(<<ValidPdd>>)}

\* the documents at most n edits away from a fixture
Within(n) ==
    IF n < 0 THEN {}
    ELSE Edited({ValidPdd}, PddEdits, n) \cup Edited({ValidMrv}, MrvEdits, n)
         \cup (IF n > 0 THEN OtherDocs ELSE {})

\* what the schema engine may find in a document
RequiredViolation == [msg |-> "'geometry' is a required property", path |-> <<>>]
TypeViolation == [msg |-> "5 is not of type 'array'", path |-> <<"links">>]
FormatViolation == [msg |-> "5 is not of type 'string'", path |-> <<"properties", "creation_date">>]

FoundEdits ==
    {Found(<<RequiredViolation>>), Found(<<FormatViolation>>),
     Found(<<TypeViolation, RequiredViolation>>), Found(<<FormatViolation, TypeViolation>>),
     BadSchema}

ExplicitTypes == {Str("pdd"), Str("mrv"), Str("xyz")}

\* the inputs <<document, doc_type, found>> of validate_document at most n
\* edits away from validate_document(fixture): a doc_type given explicitly and
\* a finding of the schema engine count as one edit each
Inputs(n) ==
    {<<d, Null, Found(<<>>)>> : d \in Within(n)}
    \cup {<<d, dt, Found(<<>>)>> : d \in Within(n - 1), dt \in ExplicitTypes}
    \cup {<<d, Null, f>> : d \in Within(n - 1), f \in FoundEdits}
    \cup {<<d, dt, f>> : d \in Within(n - 2), dt \in ExplicitTypes, f \in FoundEdits}

\* how many elements the data array of a response may have
MaxItems == 2

\* the elements of the data array of a response
ItemDocs ==
    {ValidPdd, ValidMrv, Str("x"),
     SetKey(ValidPdd, "type", Str("FeatureCollection")),
     SetKey(ValidPdd, "geometry", Absent),
     SetKey(ValidMrv, "ogcr_version", Str("1.0")),
     SetKey(ValidPdd, "geometry", Num(5))}

ItemLists == UNION {[1..n -> ItemDocs] : n \in 0..MaxItems}

\* what the schema engine meets in the n documents of a response
ItemFounds(n) == [1..n -> {Found(<<>>), Found(<<RequiredViolation>>)}]

OkResponse(json, body) ==
    [net |-> "ok", status |-> 200, reason |-> "OK", json |-> json, body |-> body]

Responses ==
    {[net |-> "error", status |-> 0, reason |-> "Connection refused", json |-> FALSE, body |-> Null],
     [net |-> "ok", status |-> 404, reason |-> "Not Found", json |-> TRUE, body |-> ValidPdd],
     [net |-> "ok", status |-> 404, reason |-> "Not Found", json |-> TRUE,
      body |-> SetKey(ValidPdd, "geometry", Absent)],
     [net |-> "ok", status |-> 201, reason |-> "Created", json |-> TRUE, body |-> ValidMrv],
     [net |-> "ok", status |-> 500, reason |-> "Internal Server Error", json |-> FALSE, body |-> Null],
     [net |-> "error", status |-> 0, reason |-> "Read timed out", json |-> FALSE, body |-> Null],
     OkResponse(FALSE, Null),
     OkResponse(TRUE, Obj(<<KV("status", Str("healthy"))>>)),
     OkResponse(TRUE, List(<<ValidPdd>>)),
     OkResponse(TRUE, Obj(<<KV("data", Num(5))>>))}
    \cup {OkResponse(TRUE, d) : d \in Within(MaxEdits - 1)}
    \cup {OkResponse(TRUE, Obj(<<KV("data", List(items))>>)) : items \in ItemLists}

----------------------------------------------------------------------------
(* validate_document step by step, as a thread runs it beside others *)

\* how many threads call the checker
MaxThreads == 2

Threads == 1..MaxThreads

\* a thread outside validate_document
IdleThread ==
    [pc |-> "idle", input |-> <<>>, document |-> Null, doc_type |-> Null,
     found |-> Found(<<>>), errors |-> <<>>, result |-> NoResult]

\* the entry of validate_document: the arguments are bound, errors = []
BeginCall(in) ==
    [pc |-> "detect", input |-> in, document |-> in[1], doc_type |-> in[2], found |-> in[3],
     errors |-> <<>>, result |-> NoResult]

\* the threads after thread t entered validate_document, were errors a list
\* of the checker that every call empties
AfterBeginSharedErrors(ths, t, in) ==
    [u \in DOMAIN ths |-> IF u = t THEN BeginCall(in) ELSE [ths[u] EXCEPT !.errors = <<>>]]

\* the threads after thread t entered validate_document
AfterBegin(ths, t, in) ==
    [ths EXCEPT ![t] = BeginCall(in)]

\* the thread leaves validate_document with outcome
Leave(self, outcome) == [self EXCEPT !.pc = "done", !.result = outcome]

\* the detection of the profile and the test `doc_type not in self.schemas`
DetectStep(loaded, self) ==
    Bind(ResolveDocType(self.document, self.doc_type), LAMBDA resolved :
        IF resolved.kind = "raise" THEN Leave(self, Raised(resolved.exc))
        ELSE LET profile == resolved.errors[1]
                 unknown == <<"Unknown document type: " \o profile>>
             IN IF profile \notin DOMAIN loaded
                THEN Leave([self EXCEPT !.doc_type = Str(profile), !.errors = unknown],
                           Result(FALSE, unknown))
                ELSE [self EXCEPT !.pc = "schema", !.doc_type = Str(profile)])

\* the try block around jsonschema.validate(document, self.schemas[doc_type])
SchemaStep(loaded, self) ==
    IF self.doc_type.s \notin DOMAIN loaded
    THEN Leave(self, Raised("KeyError: '" \o self.doc_type.s \o "'"))
    ELSE [self EXCEPT !.pc = "rules", !.errors = self.errors \o StructuralErrors(self.found)]

\* the rules of _validate_ogcr_requirements and the return
RulesStep(self) ==
    Bind(ValidateOgcrRequirements(self.document, self.doc_type.s), LAMBDA r :
        IF r.kind = "raise" THEN Leave(self, Raised(r.exc))
        ELSE LET all == self.errors \o r.errors IN
             Leave([self EXCEPT !.errors = all], Result(Len(all) = 0, all)))

\* no thread is in validate_document
NoThreads == threads = [t \in Threads |-> IdleThread]

----------------------------------------------------------------------------
(* The mock server (server/app/main.py): the handlers that write projects_db
   and mrv_db.  Requests carry a valid body and a bearer token; a handler
   runs from its first line to its return without interruption.  A stored
   document is kept as far as a handler reads or writes it by name: its id,
   its status and its ledger_reference; the values of the clock are left out. *)

ProjectStatus == {"draft", "submitted", "under_review", "approved", "rejected", "archived"}

\* the ledger_reference submit_project builds
MintedLedger ==
    [transaction_id |-> "0x" \o "uuid4", block_number |-> 18765432,
     ledger_id |-> "ethereum-mainnet"]

\* a handler's answer: the status code, the detail of an HTTPException, and of
\* the returned body its id, status and ledger reference
Answer(code, id, status, ledger) ==
    [status_code |-> code, detail |-> "", id |-> id, status |-> status, ledger_reference |-> ledger]

HTTPException(code, detail) ==
    [status_code |-> code, detail |-> detail, id |-> "", status |-> "", ledger_reference |-> Null]

\* what a handler leaves: the two stores and its answer
Handled(projects, reports, answer) ==
    [projects_db |-> projects, mrv_db |-> reports, reply |-> answer]

\* the stored project with its status set
WithStatus(project, status) == [project EXCEPT !.status = status]

\* create_project, project_id being the uuid4 drawn
CreateProject(projects, reports, project_id, project) ==
    LET stored == [id |-> project_id, status |-> project.status,
                   ledger_reference |-> project.ledger_reference]
    IN Handled((project_id :> stored) @@ projects, reports,
               Answer(201, project_id, project.status, Null))

\* update_project
UpdateProject(projects, reports, project_id, project) ==
    IF project_id \notin DOMAIN projects
    THEN Handled(projects, reports, HTTPException(404, "Project not found"))
    ELSE IF projects[project_id].status # "draft"
    THEN Handled(projects, reports, HTTPException(400, "Only draft projects can be updated"))
    ELSE LET stored == [id |-> project_id, status |-> project.status,
                        ledger_reference |-> project.ledger_reference]
         IN Handled([projects EXCEPT ![project_id] = stored], reports,
                    Answer(200, project_id, stored.status, stored.ledger_reference))

\* submit_project without the test of the stored status
SubmitProjectUnguarded(projects, reports, project_id) ==
    IF project_id \notin DOMAIN projects
    THEN Handled(projects, reports, HTTPException(404, "Project not found"))
    ELSE LET stored == [WithStatus(projects[project_id], "submitted")
                          EXCEPT !.ledger_reference = MintedLedger]
         IN Handled([projects EXCEPT ![project_id] = stored], reports,
                    Answer(200, "", "submitted", MintedLedger))

\* submit_project
SubmitProject(projects, reports, project_id) ==
    IF project_id \notin DOMAIN projects
    THEN Handled(projects, reports, HTTPException(404, "Project not found"))
    ELSE IF projects[project_id].status # "draft"
    THEN Handled(projects, reports, HTTPException(400, "Only draft projects can be submitted"))
    ELSE LET stored == [WithStatus(projects[project_id], "submitted")
                          EXCEPT !.ledger_reference = MintedLedger]
         IN Handled([projects EXCEPT ![project_id] = stored], reports,
                    Answer(200, "", "submitted", MintedLedger))

\* approve_project
ApproveProject(projects, reports, project_id) ==
    IF project_id \notin DOMAIN projects
    THEN Handled(projects, reports, HTTPException(404, "Project not found"))
    ELSE IF projects[project_id].status # "submitted"
    THEN Handled(projects, reports, HTTPException(400, "Only submitted projects can be approved"))
    ELSE Handled([projects EXCEPT ![project_id] = WithStatus(projects[project_id], "approved")],
                 reports, Answer(200, "", "approved", Null))

\* create_mrv_report, mrv_id being the uuid4 drawn
CreateMrvReport(projects, reports, project_id, mrv_id) ==
    IF project_id \notin DOMAIN projects
    THEN Handled(projects, reports, HTTPException(404, "Project not found"))
    ELSE IF projects[project_id].status # "approved"
    THEN Handled(projects, reports,
                 HTTPException(400, "Only approved projects can accept MRV reports"))
    ELSE LET stored == [id |-> mrv_id, project_id |-> project_id,
                        verification_status |-> "unverified"]
         IN Handled(projects, (mrv_id :> stored) @@ reports,
                    Answer(201, mrv_id, "pending_verification", Null))

\* verify_mrv_report
VerifyMrvReport(projects, reports, project_id, mrv_id) ==
    IF mrv_id \notin DOMAIN reports
    THEN Handled(projects, reports, HTTPException(404, "MRV report not found"))
    ELSE IF reports[mrv_id].project_id # project_id
    THEN Handled(projects, reports, HTTPException(404, "MRV report not found for this project"))
    ELSE Handled(projects, [reports EXCEPT ![mrv_id].verification_status = "verified"],
                 Answer(200, "", "verified", Null))

\* the body of a request without one
NoBody == [status |-> "", ledger_reference |-> Null]

NoRequest == [op |-> "", project_id |-> "", mrv_id |-> "", body |-> NoBody]

\* the server as it starts: both stores empty
NoServer ==
    /\ projects_db = <<>>
    /\ mrv_db = <<>>
    /\ request = NoRequest
    /\ reply = HTTPException(0, "")

----------------------------------------------------------------------------
(* The state machine: a checker is constructed, then called *)

FileStates == {"missing", "broken", "valid"}

NoResponse == [net |-> "", status |-> 0, reason |-> "", json |-> FALSE, body |-> Null]

\* the arguments of the command line: None is Null
NoArgs == [file |-> Null, api |-> Null, endpoint |-> Null, report |-> Null]

NoCall ==
    [op |-> "", files |-> [pdd |-> "", mrv |-> ""], document |-> Null, doc_type |-> Null,
     found |-> <<>>, file |-> "", response |-> NoResponse,
     args |-> NoArgs, responses |-> <<>>, results |-> <<>>, now |-> ""]

\* __init__ up to the call of load_schemas
Init ==
    /\ schemas = <<>>
    /\ phase = "init"
    /\ call = NoCall
    /\ result = NoResult
    /\ NoThreads
    /\ NoServer

\* load_schemas, called by __init__
LoadSchemas ==
    /\ phase = "init"
    /\ \E pdd \in FileStates, mrv \in FileStates :
         /\ schemas' = LoadedSchemas(schemas, [pdd |-> pdd, mrv |-> mrv])
         /\ call' = [NoCall EXCEPT !.op = "load_schemas", !.files = [pdd |-> pdd, mrv |-> mrv]]
    /\ phase' = "done"
    /\ UNCHANGED <<threads, serverVars>>
    /\ result' = NoResult

\* validate_document(document, doc_type)
ValidateDocument ==
    /\ phase = "ready"
    /\ \E in \in Inputs(MaxEdits) :
         /\ call' = [NoCall EXCEPT !.op = "validate_document", !.document = in[1],
                                   !.doc_type = in[2], !.found = <<in[3]>>]
         /\ result' = Validate(schemas, in[1], in[2], in[3])
    /\ phase' = "done"
    /\ UNCHANGED <<threads, serverVars>>
    /\ UNCHANGED schemas

\* _detect_document_type(document)
DetectType ==
    /\ phase = "ready"
    /\ \E d \in Within(MaxEdits) :
         /\ call' = [NoCall EXCEPT !.op = "_detect_document_type", !.document = d]
         /\ result' = Bind(DetectDocumentType(d), LAMBDA r :
                          IF r.kind = "raise" THEN Raised(r.exc) ELSE Value(r.errors[1]))
    /\ phase' = "done"
    /\ UNCHANGED <<threads, serverVars>>
    /\ UNCHANGED schemas

\* validate_file(file_path)
ValidateFile ==
    /\ phase = "ready"
    /\ \/ \E file \in {"missing", "invalid"} :
            /\ call' = [NoCall EXCEPT !.op = "validate_file", !.file = file]
            /\ result' = ValidateFileResult(schemas, file, "nonexistent.json", Null, Found(<<>>))
       \/ \E in \in Inputs(MaxEdits - 1) :
            /\ in[2] = Null
            /\ call' = [NoCall EXCEPT !.op = "validate_file", !.file = "json",
                                      !.document = in[1], !.found = <<in[3]>>]
            /\ result' = ValidateFileResult(schemas, "json", "document.json", in[1], in[3])
    /\ phase' = "done"
    /\ UNCHANGED <<threads, serverVars>>
    /\ UNCHANGED schemas

\* validate_api_endpoint(base_url, endpoint)
ValidateApiEndpoint ==
    /\ phase = "ready"
    /\ \E response \in Responses :
         \E founds \in ItemFounds(IF HasKey(response.body, "data")
                                  THEN Len(Member(response.body, "data").c) ELSE 1) :
            /\ call' = [NoCall EXCEPT !.op = "validate_api_endpoint", !.response = response,
                                      !.found = founds]
            /\ result' = ValidateApiResult(schemas, response, founds)
    /\ phase' = "done"
    /\ UNCHANGED <<threads, serverVars>>
    /\ UNCHANGED schemas

\* the call is over; the checker is ready for the next one
Return ==
    /\ phase = "done"
    /\ phase' = "ready"
    /\ UNCHANGED <<threads, serverVars>>
    /\ call' = NoCall
    /\ result' = NoResult
    /\ UNCHANGED schemas

Next ==
    \/ LoadSchemas
    \/ DetectType
    \/ ValidateDocument
    \/ ValidateFile
    \/ ValidateApiEndpoint
    \/ Return

Spec == Init /\ [][Next]_vars

----------------------------------------------------------------------------
(* The rule checkers on their own: validate_document on a fixture in which one
   member takes each of the values its rule distinguishes *)

\* values of properties.start_date and properties.end_date
DateValues ==
    {Absent, Null, Str(""), Num(5),
     Str("2024-01-01"), Str("2024-06-15"), Str("2024-12-31"), Str("2023-12-31"),
     Str("2024-1-5"), Str("invalid-date"), Str("2024-13-01"), Str("2024-02-30"),
     Str("2024-12-31T00:00:00")}

\* mrv documents by their date range
DateCases ==
    {SetProp(SetProp(ValidMrv, "start_date", a), "end_date", b) : a, b \in DateValues}

\* a mapping of the members whose value is not Absent, in the order given
RECURSIVE ObjOf(_)
ObjOf(pairs) ==
    IF Len(pairs) = 0 THEN Obj(<<>>)
    ELSE LET rest == ObjOf(Tail(pairs)) IN
         IF pairs[1].v = Absent THEN rest ELSE Obj(<<pairs[1]>> \o rest.c)

\* values that are not a mapping
NonObjects ==
    {Null, Num(0), Num(5), Str(""), Str("x"), List(<<>>), List(<<Num(1)>>),
     Bool(FALSE), Bool(TRUE)}

\* values of properties.total_uncertainty
UncertaintyValues ==
    {ObjOf(<<KV("min", lo), KV("max", hi), KV("confidence_level", c)>>) :
        lo \in {Absent, Num(-1), Num(0), Num(500), Num(1000)},
        hi \in {Absent, Num(-1), Num(0), Num(500), Num(1000)},
        c \in {Absent, Num(-1), Num(0), Num(1), Num(2)}}
    \cup NonObjects

\* mrv documents by their total_uncertainty
UncertaintyCases == {SetProp(ValidMrv, "total_uncertainty", u) : u \in UncertaintyValues}

\* values of properties.net_removal_estimate
EstimateValues ==
    {ObjOf(<<KV("value", v), KV("unit", u)>>) :
        v \in {Absent, Num(-100), Num(0), Num(1000)},
        u \in {Absent, Null, Str(""), Str("tCO2e"), Str("kgCO2e"), Str("tCO2"), Str("kgCO2"),
               Str("invalid_unit"), Str("tco2e"), Str("t")}}
    \cup NonObjects

\* mrv documents by their net_removal_estimate
EstimateCases == {SetProp(ValidMrv, "net_removal_estimate", e) : e \in EstimateValues}

\* values of an element of links
LinkValues ==
    {ObjOf(<<KV("rel", rel), KV("href", href)>>) :
        rel \in {Absent, Null, Str("self")},
        href \in {Absent, Str("https://example.com"), Str("not-a-url")}}
    \cup {Null, Num(0), Str("x"), List(<<Str("rel"), Str("href")>>)}

\* how many elements a links array may have
MaxLinks == 2

\* the sequences of at most n elements of values
RECURSIVE SeqsUpTo(_, _)
SeqsUpTo(values, n) ==
    IF n = 0 THEN {<<>>}
    ELSE LET shorter == SeqsUpTo(values, n - 1) IN
         shorter \cup {Append(q, v) : q \in {r \in shorter : Len(r) = n - 1}, v \in values}

\* pdd documents by their links array
LinksCases == {SetKey(ValidPdd, "links", List(q)) : q \in SeqsUpTo(LinkValues, MaxLinks)}

\* values of the href of a link
HrefValues ==
    {Str(""), Str("https://example.com"), Str("ftp://host/x"), Str("not-a-url"),
     Str("/relative/path"), Str("//example.com"), Str("http://"), Str("mailto:a@b"),
     Str("https://[::1")}

\* pdd documents by the hrefs of their links
HrefCases ==
    {SetKey(ValidPdd, "links", List([i \in 1..Len(q) |-> Obj(<<KV("rel", Str("self")), KV("href", q[i])>>)])) :
        q \in SeqsUpTo(HrefValues, MaxLinks)}

\* values of properties.methodology
MethodologyValues ==
    {ObjOf(<<KV("id", id), KV("version", v)>>) :
        id \in {Absent, Str("test")},
        v \in {Absent, Str(""), Str("1"), Str("1.0"), Str("1.0.0"), Str("1.0.0.0"),
               Str("12.34"), Str("v1.0"), Str("1.x"), Str("invalid-version")}}
    \cup NonObjects

\* pdd documents by their methodology
MethodologyCases == {SetProp(ValidPdd, "methodology", m) : m \in MethodologyValues}

\* values of bbox
BboxValues ==
    {Absent, Null, Num(0), Num(4), Str("abcd"), Bool(FALSE), Obj(<<KV("west", Num(0))>>),
     List(<<>>), List(<<Num(0), Num(0), Num(1)>>), List(<<Num(0), Num(0), Num(1), Num(1), Num(2)>>),
     List(<<Str("a"), Str("b"), Str("c")>>)}
    \cup {List(<<Num(0), Num(-1), c, d>>) :
            c \in {Num(1), Str("1"), Null, Bool(TRUE), List(<<Num(1)>>)},
            d \in {Num(2), Str("north"), Null, Bool(TRUE)}}

\* pdd documents by their bbox
BboxCases == {SetKey(ValidPdd, "bbox", b) : b \in BboxValues}

\* pdd documents with every member valid
PddBases ==
    {SetKey(SetKey(ValidPdd, "ogcr_version", Str(v)), "geometry", g) :
        v \in {"0.1.0", "1.2.3", "10.20.30"},
        g \in {Polygon, Obj(<<KV("type", Str("Point")), KV("coordinates", List(<<Num(0), Num(0)>>))>>)}}

\* values of properties.expected_annual_benefit
BenefitValues == {Absent, Null, Num(-5), Num(-1), Num(0), Num(1), Num(1000), Bool(FALSE), Str("x")}

\* pdd documents by their expected_annual_benefit
BenefitCases == {SetProp(d, "expected_annual_benefit", b) : d \in PddBases, b \in BenefitValues}

\* values of ogcr_version
VersionValues ==
    {Absent, Str(""), Str("1.0.0"), Str("0.1.0"), Str("10.20.30"), Str("1.0"), Str("1"),
     Str("1.0.0.0"), Str("v1.0.0"), Str("1.0.0-beta"), Str("1..0"), Str(".1.0"), Str("1.0."),
     Str("a.b.c"), Str("invalid"), Str(" 1.0.0"), Str("1.0.0\n")}

\* pdd and mrv documents by their ogcr_version
VersionCases == {SetKey(d, "ogcr_version", v) : d \in {ValidPdd, ValidMrv}, v \in VersionValues}

\* values of geometry
GeometryValues ==
    {Absent, Null, Obj(<<>>), Str("Point"), Str("type coordinates"), List(<<Str("type"), Str("coordinates")>>)}
    \cup {ObjOf(<<KV("type", t), KV("coordinates", c)>>) :
            t \in {Absent, Null, Num(5), Str(""), Str("Point"), Str("Polygon"), Str("MultiPolygon"),
                   Str("Circle"), Str("point"), Str("GeometryCollection")},
            c \in {Absent, Null, Str("garbage"), List(<<>>), List(<<Num(0), Num(0)>>)}}

\* pdd documents by their geometry
GeometryCases == {SetKey(ValidPdd, "geometry", g) : g \in GeometryValues}

\* the documents of the cases, each validated with the profile detected and
\* with the profile given
CaseDocs ==
    DateCases \cup UncertaintyCases \cup BenefitCases \cup EstimateCases \cup LinksCases
    \cup HrefCases \cup MethodologyCases \cup BboxCases \cup VersionCases \cup GeometryCases

CaseInputs ==
    {<<d, Null>> : d \in CaseDocs} \cup {<<d, Member(d, "profile")>> : d \in CaseDocs}

\* a checker constructed on a directory holding both schema files
CaseInit ==
    /\ schemas = LoadedSchemas(<<>>, [pdd |-> "valid", mrv |-> "valid"])
    /\ phase = "ready"
    /\ call = NoCall
    /\ result = NoResult
    /\ NoThreads
    /\ NoServer

\* validate_document(document, doc_type) on a document the schema accepts
ValidateCase ==
    /\ phase = "ready"
    /\ \E in \in CaseInputs :
         /\ call' = [NoCall EXCEPT !.op = "validate_document", !.document = in[1],
                                   !.doc_type = in[2], !.found = <<Found(<<>>)>>]
         /\ result' = Validate(schemas, in[1], in[2], Found(<<>>))
    /\ phase' = "done"
    /\ UNCHANGED <<threads, serverVars>>
    /\ UNCHANGED schemas

CaseNext ==
    \/ ValidateCase
    \/ Return

CaseSpec == CaseInit /\ [][CaseNext]_vars

----------------------------------------------------------------------------
(* The command line: main on its arguments, files and endpoints, and the
   report on lists of results *)

\* values of datetime.now().isoformat()
Timestamps == {"2024-12-07T10:00:00.123456", "2025-01-01T00:00:00"}

\* entries of a results list
ReportResults ==
    {TestResult("Test 1", TRUE, <<>>),
     TestResult("Test 2", FALSE, <<"Error 1", "Error 2">>),
     TestResult("Test 2", FALSE, <<>>),
     TestResult("Test 1", TRUE, <<"Error 1">>),
     TestResult("Test 3", FALSE, <<"Error 3">>),
     TestResult("File: document.json", TRUE, <<>>)}

\* how many results a report may have
MaxResults == 3

\* the command lines
CliArgs ==
    [file : {Null, Str(""), Str("document.json")},
     api : {Null, Str("http://localhost:8000")},
     endpoint : {Null, Str("/projects/PROJ-1")},
     report : {Null, Str("report.txt")}]

\* the schema directories of a run
CliFiles == {[pdd |-> "valid", mrv |-> "valid"], [pdd |-> "missing", mrv |-> "missing"]}

\* the content of the file of --file
CliDocs == {ValidPdd, ValidMrv, SetKey(ValidPdd, "geometry", Absent), Null}

\* what an endpoint answers
CliResponses ==
    {OkResponse(TRUE, Obj(<<KV("status", Str("healthy"))>>)),
     OkResponse(TRUE, Obj(<<KV("data", List(<<ValidPdd>>))>>)),
     OkResponse(TRUE, Obj(<<KV("data", List(<<SetKey(ValidPdd, "geometry", Absent)>>))>>)),
     OkResponse(TRUE, SetKey(ValidPdd, "geometry", Num(5))),
     [net |-> "ok", status |-> 404, reason |-> "Not Found", json |-> TRUE, body |-> Null],
     [net |-> "error", status |-> 0, reason |-> "Connection refused", json |-> FALSE, body |-> Null]}

\* no process has run
CliInit ==
    /\ schemas = <<>>
    /\ phase = "ready"
    /\ call = NoCall
    /\ result = NoResult
    /\ NoThreads
    /\ NoServer

\* a run of main on a command line
Main ==
    /\ phase = "ready"
    /\ \E args \in CliArgs, files \in CliFiles, now \in Timestamps :
         \/ /\ Truthy(args.file)
            /\ \/ \E file \in {"missing", "invalid"} :
                    /\ call' = [NoCall EXCEPT !.op = "main", !.args = args, !.files = files,
                                              !.file = file, !.now = now]
                    /\ result' = MainResult(files, args, file, Null, <<>>, now)
               \/ \E d \in CliDocs :
                    /\ call' = [NoCall EXCEPT !.op = "main", !.args = args, !.files = files,
                                              !.file = "json", !.document = d, !.now = now]
                    /\ result' = MainResult(files, args, "json", d, <<>>, now)
            /\ schemas' = LoadedSchemas(<<>>, files)
         \/ /\ ~Truthy(args.file) /\ Truthy(args.api)
            /\ \E responses \in [1..Len(EndpointsOf(args)) -> CliResponses] :
                    /\ call' = [NoCall EXCEPT !.op = "main", !.args = args, !.files = files,
                                              !.responses = responses, !.now = now]
                    /\ result' = MainResult(files, args, "", Null, responses, now)
            /\ schemas' = LoadedSchemas(<<>>, files)
         \/ /\ ~Truthy(args.file) /\ ~Truthy(args.api)
            /\ call' = [NoCall EXCEPT !.op = "main", !.args = args, !.files = files, !.now = now]
            /\ result' = MainResult(files, args, "", Null, <<>>, now)
            /\ schemas' = LoadedSchemas(<<>>, files)
    /\ phase' = "done"
    /\ UNCHANGED <<threads, serverVars>>

\* generate_compliance_report(results)
GenerateReport ==
    /\ phase = "ready"
    /\ \E results \in SeqsUpTo(ReportResults, MaxResults), now \in Timestamps :
         /\ call' = [NoCall EXCEPT !.op = "generate_compliance_report", !.results = results,
                                   !.now = now]
         /\ result' = Value(GenerateComplianceReport(results, now))
    /\ phase' = "done"
    /\ UNCHANGED <<threads, serverVars>>
    /\ UNCHANGED schemas

CliNext ==
    \/ Main
    \/ GenerateReport
    \/ Return

CliSpec == CliInit /\ [][CliNext]_vars

----------------------------------------------------------------------------
(* Threads calling validate_document on one checker whose schemas are loaded *)

\* the arguments of the calls and what the schema engine meets in the document
ConcurrentInputs ==
    {<<ValidPdd, Null, Found(<<>>)>>,
     <<ValidMrv, Null, Found(<<RequiredViolation>>)>>,
     <<SetKey(ValidPdd, "geometry", Absent), Str("pdd"), Found(<<RequiredViolation>>)>>,
     <<SetKey(ValidMrv, "ogcr_version", Str("1.0")), Null, Found(<<>>)>>,
     <<SetKey(ValidPdd, "geometry", Num(5)), Null, Found(<<>>)>>,
     <<SetKey(ValidPdd, "profile", Str("credit")), Str("credit"), Found(<<>>)>>}

\* the checker was constructed on a directory with both schema files, or with
\* the pdd one alone
ConcurrentInit ==
    /\ schemas \in {LoadedSchemas(<<>>, [pdd |-> "valid", mrv |-> "valid"]),
                    LoadedSchemas(<<>>, [pdd |-> "valid", mrv |-> "missing"])}
    /\ phase = "ready"
    /\ call = NoCall
    /\ result = NoResult
    /\ NoThreads
    /\ NoServer

\* thread t calls validate_document(document, doc_type)
Begin(t) ==
    /\ threads[t].pc = "idle"
    /\ \E in \in ConcurrentInputs : threads' = AfterBegin(threads, t, in)
    /\ UNCHANGED <<schemas, phase, call, result, serverVars>>

\* thread t resolves the profile of its document
Detect(t) ==
    /\ threads[t].pc = "detect"
    /\ threads' = [threads EXCEPT ![t] = DetectStep(schemas, threads[t])]
    /\ UNCHANGED <<schemas, phase, call, result, serverVars>>

\* thread t asks the schema engine
CheckSchema(t) ==
    /\ threads[t].pc = "schema"
    /\ threads' = [threads EXCEPT ![t] = SchemaStep(schemas, threads[t])]
    /\ UNCHANGED <<schemas, phase, call, result, serverVars>>

\* thread t runs the rules and returns
CheckRules(t) ==
    /\ threads[t].pc = "rules"
    /\ threads' = [threads EXCEPT ![t] = RulesStep(threads[t])]
    /\ UNCHANGED <<schemas, phase, call, result, serverVars>>

\* the caller of thread t took the result
Finish(t) ==
    /\ threads[t].pc = "done"
    /\ threads' = [threads EXCEPT ![t] = IdleThread]
    /\ UNCHANGED <<schemas, phase, call, result, serverVars>>

ConcurrentNext ==
    \E t \in Threads :
        \/ Begin(t)
        \/ Detect(t)
        \/ CheckSchema(t)
        \/ CheckRules(t)
        \/ Finish(t)

ConcurrentSpec == ConcurrentInit /\ [][ConcurrentNext]_vars

----------------------------------------------------------------------------
(* The mock server handling one request after another *)

\* how many projects and MRV reports the stores may hold
MaxProjects == 2
MaxReports == 1

\* the values uuid4 may give for a project and for an MRV report
ProjectIds == {"project-" \o NatStr(i) : i \in 1..MaxProjects}
MrvIds == {"mrv-" \o NatStr(i) : i \in 1..MaxReports}

\* the project documents of the clients
ProjectBodies == [status : ProjectStatus, ledger_reference : {Null}]

ServerInit ==
    /\ schemas = <<>>
    /\ phase = "ready"
    /\ call = NoCall
    /\ result = NoResult
    /\ NoThreads
    /\ NoServer

\* the handler ran: its stores and its answer take effect
Serve(req, handled) ==
    /\ request' = req
    /\ projects_db' = handled.projects_db
    /\ mrv_db' = handled.mrv_db
    /\ reply' = handled.reply
    /\ UNCHANGED <<schemas, phase, call, result, threads>>

\* POST /projects
PostProject ==
    \E project_id \in ProjectIds \ DOMAIN projects_db, project \in ProjectBodies :
        Serve([NoRequest EXCEPT !.op = "create_project", !.body = project],
              CreateProject(projects_db, mrv_db, project_id, project))

\* PUT /projects/{project_id}
PutProject ==
    \E project_id \in ProjectIds, project \in ProjectBodies :
        Serve([NoRequest EXCEPT !.op = "update_project", !.project_id = project_id,
                                !.body = project],
              UpdateProject(projects_db, mrv_db, project_id, project))

\* POST /projects/{project_id}/submit
PostSubmit ==
    \E project_id \in ProjectIds :
        Serve([NoRequest EXCEPT !.op = "submit_project", !.project_id = project_id],
              SubmitProject(projects_db, mrv_db, project_id))

\* POST /projects/{project_id}/approve
PostApprove ==
    \E project_id \in ProjectIds :
        Serve([NoRequest EXCEPT !.op = "approve_project", !.project_id = project_id],
              ApproveProject(projects_db, mrv_db, project_id))

\* POST /projects/{project_id}/monitoring; once mrv_db is full only the
\* requests that store nothing are served
PostMonitoring ==
    \E project_id \in ProjectIds, mrv_id \in (MrvIds \ DOMAIN mrv_db) \cup {""} :
        /\ IF mrv_id # "" THEN TRUE
           ELSE IF project_id \in DOMAIN projects_db
                THEN projects_db[project_id].status # "approved"
                ELSE TRUE
        /\ Serve([NoRequest EXCEPT !.op = "create_mrv_report", !.project_id = project_id],
                 CreateMrvReport(projects_db, mrv_db, project_id, mrv_id))

\* POST /projects/{project_id}/monitoring/{mrv_id}/verify
PostVerify ==
    \E project_id \in ProjectIds, mrv_id \in MrvIds :
        Serve([NoRequest EXCEPT !.op = "verify_mrv_report", !.project_id = project_id,
                                !.mrv_id = mrv_id],
              VerifyMrvReport(projects_db, mrv_db, project_id, mrv_id))

ServerNext ==
    \/ PostProject
    \/ PutProject
    \/ PostSubmit
    \/ PostApprove
    \/ PostMonitoring
    \/ PostVerify

ServerSpec == ServerInit /\ [][ServerNext]_vars

----------------------------------------------------------------------------
(* Properties *)

\* the call op is over and gave a (valid, errors) result
Returned(op) == phase = "done" /\ call.op = op /\ result.kind = "return"

HasError(e) == \E i \in 1..Len(result.errors) : result.errors[i] = e

ErrorsWith(part) == {i \in 1..Len(result.errors) : Contains(result.errors[i], part)}

\* the profile the call resolves for its document
Resolved == ResolveDocType(call.document, call.doc_type)

\* validate_document returned after running the validators of a loaded profile
Checked ==
    /\ Returned("validate_document")
    /\ Resolved.kind = "return"
    /\ Resolved.errors[1] \in DOMAIN schemas

\* C1: every result that validate_document, validate_file or
\* validate_api_endpoint returns has valid = TRUE exactly when its error list
\* is empty.
C1_ValidIffNoErrors ==
    (phase = "done" /\ result.kind = "return"
        /\ call.op \in {"validate_document", "validate_file", "validate_api_endpoint"})
    => (result.valid <=> Len(result.errors) = 0)

\* a data array with a valid and an invalid element gave an invalid result
C1_Witness ==
    /\ Returned("validate_api_endpoint")
    /\ HasKey(call.response.body, "data")
    /\ ~result.valid
    /\ Len(result.errors) > 0

\* C2: validate_document never raises, whatever JSON value is the document.
C2_NeverRaises ==
    (phase = "done" /\ call.op = "validate_document") => result.kind # "raise"

\* C3: a document whose links member is a single object is invalid with exactly
\* one "links must be an array" error and no "Link i must be an object" error.
C3_LinksObjectOneError ==
    (Checked /\ Get(call.document, "links").t = "obj")
    => /\ ~result.valid
       /\ Cardinality(ErrorsWith("links must be an array")) = 1
       /\ ErrorsWith("must be an object") = {}

\* the checker an error entry comes from: 0 the schema engine, 1 GeoJSON,
\* 2 version, 3 links, 4 the rules of the profile
ErrorRank(e) ==
    IF \/ StartsWith(e, "Schema validation error: ")
       \/ StartsWith(e, "Schema error: ")
       \/ StartsWith(e, "  Path: ")
    THEN 0
    ELSE IF \/ e \in {"Document must be a GeoJSON Feature", "Missing required geometry field",
                      "Invalid geometry structure", "bbox must be an array of 4 numbers",
                      "bbox values must be numbers"}
            \/ StartsWith(e, "Invalid geometry type: ")
    THEN 1
    ELSE IF e = "Missing ogcr_version field" \/ StartsWith(e, "Invalid ogcr_version format: ")
    THEN 2
    ELSE IF StartsWith(e, "Link ") THEN 3
    ELSE 4

\* C4: in the errors of a validated document the schema error comes first, with
\* its "  Path:" line directly after it, and the semantic errors follow in the
\* order GeoJSON, version, links, profile rules.
C4_ErrorOrder ==
    Checked =>
        /\ \A i, j \in 1..Len(result.errors) :
             i < j => ErrorRank(result.errors[i]) <= ErrorRank(result.errors[j])
        /\ \A i \in 1..Len(result.errors) :
             StartsWith(result.errors[i], "  Path: ")
                => i = 2 /\ StartsWith(result.errors[1], "Schema validation error: ")

\* errors of two different rule checkers
C4_Witness ==
    /\ Checked
    /\ \E i, j \in 1..Len(result.errors) :
         i < j /\ 1 <= ErrorRank(result.errors[i])
               /\ ErrorRank(result.errors[i]) < ErrorRank(result.errors[j])

\* C5: when the resolved profile has no loaded schema, validate_document
\* returns invalid with the single error "Unknown document type: <profile>",
\* whatever the validators would have said of the document.
C5_UnknownProfile ==
    (phase = "done" /\ call.op = "validate_document"
        /\ Resolved.kind = "return" /\ Resolved.errors[1] \notin DOMAIN schemas)
    => result = Result(FALSE, <<"Unknown document type: " \o Resolved.errors[1]>>)

\* an unknown profile for a document in which the schema engine finds a violation
C5_Witness ==
    /\ Returned("validate_document")
    /\ Resolved.kind = "return" /\ Resolved.errors[1] \notin DOMAIN schemas
    /\ call.found[1] # Found(<<>>)

\* the profile the detection priority gives a mapping: properties that is not
\* a mapping holds no key
ExpectedProfile(d) ==
    LET properties == IF HasKey(d, "properties") THEN Member(d, "properties") ELSE Obj(<<>>) IN
    IF Member(d, "profile") \in {Str("pdd"), Str("mrv")} THEN Member(d, "profile").s
    ELSE IF HasKey(properties, "project_type") THEN "pdd"
    ELSE IF HasKey(properties, "methodology_data") THEN "mrv"
    ELSE "unknown"

\* C6: for every mapping, detection gives the profile member when it is "pdd"
\* or "mrv", whatever properties holds; otherwise pdd when properties has the
\* key project_type, otherwise mrv when it has the key methodology_data,
\* otherwise unknown.
C6_DetectionPriority ==
    (phase = "done" /\ call.op = "_detect_document_type" /\ call.document.t = "obj")
    => result = Value(ExpectedProfile(call.document))

\* C7: when the schema file of one profile is broken and the file of the other
\* is valid, load_schemas loads the other, whichever of the two is broken.
C7_BrokenFileLoadsOther ==
    (phase = "done" /\ call.op = "load_schemas")
    => /\ (call.files.pdd = "broken" /\ call.files.mrv = "valid") => "mrv" \in DOMAIN schemas
       /\ (call.files.mrv = "broken" /\ call.files.pdd = "valid") => "pdd" \in DOMAIN schemas

SchemaLines == {i \in 1..Len(result.errors) : StartsWith(result.errors[i], "Schema validation error: ")}

\* C8: a document with n schema violations yields n "Schema validation error"
\* lines in the errors validate_document returns, none dropped.
C8_OneLinePerViolation ==
    (Checked /\ call.found[1].schemaError = "")
    => Cardinality(SchemaLines) = Len(call.found[1].violations)

\* validate_document is called with a mapping whose resolved profile has a
\* loaded schema, so that the validators run
Validated ==
    /\ phase = "done" /\ call.op = "validate_document"
    /\ call.document.t = "obj"
    /\ Resolved.kind = "return"
    /\ Resolved.errors[1] \in DOMAIN schemas

\* C9: every validated document whose type is not "Feature", a missing type
\* included, gets an invalid result holding "Document must be a GeoJSON Feature".
C9_NotFeatureInvalid ==
    (Validated /\ Get(call.document, "type") # Str("Feature"))
    => /\ result.kind = "return"
       /\ ~result.valid
       /\ HasError("Document must be a GeoJSON Feature")

\* the document has a geometry object whose type is outside the enumeration
BadGeometryType ==
    /\ call.document.t = "obj"
    /\ Member(call.document, "geometry").t = "obj"
    /\ HasKey(Member(call.document, "geometry"), "type")
    /\ ~ \E g \in GeometryTypes : Member(Member(call.document, "geometry"), "type") = Str(g)

\* C10: every validated document whose geometry.type is outside the
\* enumeration gets an invalid result holding "Invalid geometry type: <value>"
\* with the value of geometry.type.
C10_BadGeometryTypeInvalid ==
    (Validated /\ BadGeometryType)
    => /\ result.kind = "return"
       /\ ~result.valid
       /\ HasError("Invalid geometry type: "
                   \o PyStr(Member(Member(call.document, "geometry"), "type")))

----------------------------------------------------------------------------
(* The rules of the profiles, the links and the bbox *)

\* the properties of the document of the call
Props == Member(call.document, "properties")

\* the document of the call is the fixture base but for the member key of its
\* properties
ButFor(base, key) ==
    /\ call.document.t = "obj" /\ Props.t = "obj"
    /\ SetProp(call.document, key, Member(Member(base, "properties"), key)) = base

\* x is a date written YYYY-MM-DD
IsYmd(x) ==
    /\ Len(x) = 10
    /\ AllDigits(SubSeq(x, 1, 4)) /\ Ch(x, 5) = "-"
    /\ AllDigits(SubSeq(x, 6, 7)) /\ Ch(x, 8) = "-"
    /\ AllDigits(SubSeq(x, 9, 10))
    /\ StrNat(SubSeq(x, 1, 4)) >= 1
    /\ StrNat(SubSeq(x, 6, 7)) \in 1..12
    /\ StrNat(SubSeq(x, 9, 10)) \in 1..DaysIn(StrNat(SubSeq(x, 1, 4)), StrNat(SubSeq(x, 6, 7)))

\* the date x is not before the date y, both written YYYY-MM-DD
YmdGeq(x, y) ==
    LET Key(z) == <<StrNat(SubSeq(z, 1, 4)), StrNat(SubSeq(z, 6, 7)), StrNat(SubSeq(z, 9, 10))>>
        a == Key(x)
        b == Key(y)
    IN \/ a[1] > b[1]
       \/ a[1] = b[1] /\ a[2] > b[2]
       \/ a[1] = b[1] /\ a[2] = b[2] /\ a[3] >= b[3]

\* C11: for an mrv document with start_date and end_date both present as
\* strings: when both are YYYY-MM-DD dates the errors hold "start_date must be
\* before end_date" exactly when start_date >= end_date; when one of them is
\* not a date an "Invalid date format" error is reported and the ordering
\* error is not.
C11_DateRange ==
    (Validated /\ Resolved.errors[1] = "mrv"
        /\ Member(Props, "start_date").t = "str" /\ Member(Props, "end_date").t = "str")
    => LET start_date == Member(Props, "start_date").s
           end_date == Member(Props, "end_date").s
       IN /\ result.kind = "return"
          /\ IF IsYmd(start_date) /\ IsYmd(end_date)
             THEN HasError("start_date must be before end_date") <=> YmdGeq(start_date, end_date)
             ELSE /\ ErrorsWith("Invalid date format") # {}
                  /\ ~HasError("start_date must be before end_date")

\* total_uncertainty of the document of the call, with its members
Uncertainty == Member(Props, "total_uncertainty")

Benefit == Member(Props, "expected_annual_benefit")

\* C14: for a pdd document that is valid but for its expected_annual_benefit:
\* a negative number gives an invalid result holding "expected_annual_benefit
\* must be non-negative" and no geometry or version error; no
\* expected_annual_benefit, or a number >= 0, gives valid = TRUE and no errors.
C14_BenefitEndToEnd ==
    (Validated /\ Resolved.errors[1] = "pdd" /\ Props.t = "obj"
        /\ SetProp(call.document, "expected_annual_benefit", Absent) \in PddBases)
    => /\ (Benefit.t = "num" /\ Benefit.n < 0)
            => /\ result.kind = "return" /\ ~result.valid
               /\ HasError("expected_annual_benefit must be non-negative")
               /\ \A i \in 1..Len(result.errors) : ErrorRank(result.errors[i]) \notin {1, 2}
       /\ (Benefit = Absent \/ (Benefit.t = "num" /\ Benefit.n >= 0))
            => result = Result(TRUE, <<>>)

\* an expected_annual_benefit of zero was accepted
C14_Witness ==
    /\ Validated /\ Props.t = "obj" /\ Benefit = Num(0)
    /\ result = Result(TRUE, <<>>)

\* net_removal_estimate of the document of the call
Estimate == Member(Props, "net_removal_estimate")

\* C15: for an mrv document, valid but for its net_removal_estimate, whose
\* net_removal_estimate is an object: with a
\* unit present the errors hold "Invalid unit: <unit> (must be one of [the
\* four units])" exactly when the unit is not tCO2e, kgCO2e, tCO2 or kgCO2;
\* with no unit there is no unit error.
C15_UnitRule ==
    (Validated /\ Resolved.errors[1] = "mrv" /\ ButFor(ValidMrv, "net_removal_estimate")
        /\ Estimate.t = "obj")
    => LET unit == Member(Estimate, "unit") IN
       /\ result.kind = "return"
       /\ unit.t = "str"
            => (HasError("Invalid unit: " \o unit.s
                         \o " (must be one of ['tCO2e', 'kgCO2e', 'tCO2', 'kgCO2'])")
                  <=> unit.s \notin {"tCO2e", "kgCO2e", "tCO2", "kgCO2"})
       /\ (unit = Absent \/ (unit.t = "str" /\ unit.s \in {"tCO2e", "kgCO2e", "tCO2", "kgCO2"}))
            => ErrorsWith("Invalid unit") = {}

\* the document of the call is the fixture base but for its member key
ButForTop(base, key) ==
    /\ call.document.t = "obj"
    /\ SetKey(call.document, key, Member(base, key)) = base

\* links of the document of the call
Links == Member(call.document, "links")

\* the index of the i-th element of an array, as the errors write it
IndexNames == <<"0", "1", "2", "3", "4">>

LinkPrefix(i) == "Link " \o IndexNames[i] \o " "

AbsoluteUrls == {"https://example.com", "ftp://host/x"}

\* C17: for the link at index i of a links array whose href is a string: the
\* errors hold "Link i href is not a valid URL" when the href, the empty
\* string included, lacks a scheme or a host, and hold no href error for link
\* i when it has both.
C17_HrefAbsolute ==
    (Validated /\ ButForTop(ValidPdd, "links") /\ Links.t = "list")
    => /\ result.kind = "return"
       /\ \A i \in 1..Len(Links.c) :
            LET link == Links.c[i].v IN
            (link.t = "obj" /\ Member(link, "href").t = "str")
            => (ErrorsWith(LinkPrefix(i) \o "href is not a valid URL") # {}
                  <=> Member(link, "href").s \notin AbsoluteUrls)

\* the call validated base with the member key of its properties set to a
\* number, a string, a list or a boolean
NonObjectGiven(base, key) ==
    /\ Validated /\ ButFor(base, key)
    /\ Member(Props, key).t \in {"num", "str", "list", "bool"}

\* C18: a methodology (pdd), net_removal_estimate (mrv) or total_uncertainty
\* (mrv) that is a number, zero included, a string, the empty one included, a
\* list or a boolean gets exactly the one error "<field> must be an object",
\* and nothing of its nested checks.
C18_NonObjectOneError ==
    /\ NonObjectGiven(ValidPdd, "methodology")
          => result = Result(FALSE, <<"Methodology must be an object">>)
    /\ NonObjectGiven(ValidMrv, "net_removal_estimate")
          => result = Result(FALSE, <<"net_removal_estimate must be an object">>)
    /\ NonObjectGiven(ValidMrv, "total_uncertainty")
          => result = Result(FALSE, <<"total_uncertainty must be an object">>)

\* methodology of the document of the call
Methodology == Member(Props, "methodology")

\* x is digits.digits or digits.digits.digits
RECURSIVE DottedNumber(_, _)
DottedNumber(x, parts) ==
    LET dot == FindFrom(x, ".", 1)
        head == IF dot = 0 THEN x ELSE SubSeq(x, 1, dot - 1)
    IN /\ Len(head) > 0 /\ AllDigits(head)
       /\ IF dot = 0 THEN parts \in {2, 3}
          ELSE DottedNumber(SubSeq(x, dot + 1, Len(x)), parts + 1)

\* C19: for a pdd document whose methodology is an object, the empty one
\* included: "Methodology missing required 'id' field" is an error iff id is
\* absent, "Methodology missing required 'version' field" iff version is
\* absent, and "Invalid methodology version format: <version>" iff version is
\* present and not a dotted number of 2 or 3 components.
C19_MethodologyFields ==
    (Validated /\ ButFor(ValidPdd, "methodology") /\ Methodology.t = "obj")
    => LET version == Member(Methodology, "version") IN
       /\ result.kind = "return"
       /\ HasError("Methodology missing required 'id' field") <=> ~HasKey(Methodology, "id")
       /\ HasError("Methodology missing required 'version' field") <=> ~HasKey(Methodology, "version")
       /\ version.t \in {"str", "absent"}
            => (ErrorsWith("Invalid methodology version format") # {}
                  <=> (version.t = "str" /\ ~DottedNumber(version.s, 1)))

\* bbox of the document of the call
Bbox == Member(call.document, "bbox")

\* C20: of a document valid but for its bbox: a bbox that is not an array, or
\* an array not of length 4, gives exactly "bbox must be an array of 4
\* numbers"; an array of 4 with an element that is not a number gives exactly
\* "bbox values must be numbers"; an array of 4 numbers, or no bbox, gives no
\* error.
C20_BboxRule ==
    (Validated /\ ButForTop(ValidPdd, "bbox") /\ Bbox.t # "null")
    => result =
         IF Bbox = Absent THEN Result(TRUE, <<>>)
         ELSE IF Bbox.t # "list" \/ Len(Bbox.c) # 4
              THEN Result(FALSE, <<"bbox must be an array of 4 numbers">>)
         ELSE IF \E i \in 1..4 : Bbox.c[i].v.t # "num"
              THEN Result(FALSE, <<"bbox values must be numbers">>)
         ELSE Result(TRUE, <<>>)

----------------------------------------------------------------------------
(* The version rule and the geometry rule *)

\* ogcr_version of the document of the call
Version == Member(call.document, "ogcr_version")

\* the components of x between its dots
RECURSIVE DotSplit(_)
DotSplit(x) ==
    LET dot == FindFrom(x, ".", 1) IN
    IF dot = 0 THEN <<x>>
    ELSE <<SubSeq(x, 1, dot - 1)>> \o DotSplit(SubSeq(x, dot + 1, Len(x)))

\* x is digits.digits.digits and nothing else
StrictSemver(x) ==
    LET parts == DotSplit(x) IN
    /\ Len(parts) = 3
    /\ \A i \in 1..3 : Len(parts[i]) > 0 /\ AllDigits(parts[i])

\* C21: of a document valid but for its ogcr_version: absent gives exactly
\* "Missing ogcr_version field"; a string, the empty one included, that is not
\* digits.digits.digits gives exactly one error, "Invalid ogcr_version format:
\* <value> ..."; a string that is digits.digits.digits gives no error.
C21_VersionRule ==
    (Validated /\ (ButForTop(ValidPdd, "ogcr_version") \/ ButForTop(ValidMrv, "ogcr_version"))
       /\ Version.t \in {"absent", "str"})
    => /\ result.kind = "return"
       /\ IF Version = Absent THEN result.errors = <<"Missing ogcr_version field">>
          ELSE IF StrictSemver(Version.s) THEN result.errors = <<>>
          ELSE /\ Len(result.errors) = 1
               /\ StartsWith(result.errors[1], "Invalid ogcr_version format: " \o Version.s)

\* geometry of the document of the call
Geometry == Member(call.document, "geometry")

\* C29: of a document valid but for its geometry, absent or an object: the
\* errors are exactly "Missing required geometry field" when it is absent;
\* else "Invalid geometry structure" when it lacks type or coordinates, the
\* empty object included; else "Invalid geometry type: X" when type is not one
\* of the six geometry types; else none, whatever coordinates is.
C29_GeometryPriority ==
    (Validated /\ ButForTop(ValidPdd, "geometry") /\ Geometry.t \in {"absent", "obj"})
    => /\ result.kind = "return"
       /\ result.errors =
            IF Geometry = Absent THEN <<"Missing required geometry field">>
            ELSE IF ~HasKey(Geometry, "type") \/ ~HasKey(Geometry, "coordinates")
                 THEN <<"Invalid geometry structure">>
            ELSE LET type == Member(Geometry, "type") IN
                 IF type.t = "str" /\ type.s \in {"Point", "LineString", "Polygon", "MultiPoint",
                                                   "MultiLineString", "MultiPolygon"}
                 THEN <<>>
                 ELSE <<"Invalid geometry type: " \o PyStr(type)>>

----------------------------------------------------------------------------
(* Files, endpoints, the report and the command line *)

\* C22: validate_file never raises; a missing file gives (False, ["File not
\* found: <path>"]), a file that is not JSON gives (False, [one "Invalid JSON:
\* ..." error]), and a file that parses gives exactly the result of
\* validate_document on the parsed document with the profile detected.
C22_FileDelegates ==
    (phase = "done" /\ call.op = "validate_file")
    => /\ result.kind = "return"
       /\ call.file = "missing" => result = Result(FALSE, <<"File not found: nonexistent.json">>)
       /\ call.file = "invalid"
            => /\ ~result.valid
               /\ Len(result.errors) = 1
               /\ StartsWith(result.errors[1], "Invalid JSON: ")
       /\ call.file = "json"
            => result = Validate(schemas, call.document, Null, call.found[1])

\* the body of the response of the call and its data member
Body == call.response.body
Data == Member(Body, "data")

\* the call got a 200 response whose JSON body is an object with a data array
DataArrayGiven ==
    /\ phase = "done" /\ call.op = "validate_api_endpoint"
    /\ call.response.net = "ok" /\ call.response.status = 200 /\ call.response.json
    /\ Body.t = "obj" /\ Data.t = "list"

\* validate_document on the element at position i of the data array
ItemResult(i) == Validate(schemas, Data.c[i].v, Null, FoundAt(call.found, i))

\* the errors of the elements from position i on, each with its index
RECURSIVE ItemErrorsFrom(_)
ItemErrorsFrom(i) ==
    IF i > Len(Data.c) THEN <<>>
    ELSE PrefixItem(i - 1, ItemResult(i).errors) \o ItemErrorsFrom(i + 1)

\* C23: for a 200 response whose body is an object with a data array, on
\* whose elements validate_document returns: the errors are those of every
\* element, in order, each prefixed "Item i: " with the index of its element,
\* and the result is valid iff validate_document finds every element valid.
C23_EveryItemValidated ==
    (DataArrayGiven /\ \A i \in 1..Len(Data.c) : ItemResult(i).kind = "return")
    => /\ result.kind = "return"
       /\ result.errors = ItemErrorsFrom(1)
       /\ result.valid <=> \A i \in 1..Len(Data.c) : ItemResult(i).valid

\* the response of the call
Response == call.response

\* C24: validate_api_endpoint returns, and never raises, on a transport
\* failure: a network failure gives (False, ["Request error: ..."]); a status
\* other than 200 gives (False, ["HTTP <status>: <reason>"]) whatever the body
\* is; a 200 body that is not JSON gives (False, ["Response is not valid
\* JSON"]).
C24_TransportFailures ==
    (phase = "done" /\ call.op = "validate_api_endpoint"
       /\ (Response.net = "error" \/ Response.status # 200 \/ ~Response.json))
    => /\ result.kind = "return"
       /\ ~result.valid
       /\ Len(result.errors) = 1
       /\ IF Response.net = "error" THEN StartsWith(result.errors[1], "Request error: ")
          ELSE IF Response.status # 200
               THEN result.errors[1] = "HTTP " \o NatStr(Response.status) \o ": " \o Response.reason
          ELSE result.errors[1] = "Response is not valid JSON"

\* a 500 response whose body is not JSON was reported by its status
C24_Witness ==
    /\ Returned("validate_api_endpoint")
    /\ Response.net = "ok" /\ Response.status = 500 /\ ~Response.json
    /\ result = Result(FALSE, <<"HTTP 500: Internal Server Error">>)

\* the lines of x: x.split("\n")
RECURSIVE SplitLines(_)
SplitLines(x) ==
    LET nl == FindFrom(x, "\n", 1) IN
    IF nl = 0 THEN <<x>>
    ELSE <<SubSeq(x, 1, nl - 1)>> \o SplitLines(SubSeq(x, nl + 1, Len(x)))

\* the positions of the [PASS] and [FAIL] lines among lines
StatusLines(lines) ==
    {i \in 1..Len(lines) : StartsWith(lines[i], "[PASS] ") \/ StartsWith(lines[i], "[FAIL] ")}

\* C25: the report of a list of T results of which P are valid has the line
\* "Summary: P/T tests passed", then exactly T status lines, the k-th being
\* "[PASS] <name>" or "[FAIL] <name>" of the k-th result, P of them PASS; the
\* status line of a failed result is followed by its errors in order, each
\* as "  - <error>", and a status line of a passed result by none.
C25_ReportShape ==
    (phase = "done" /\ call.op = "generate_compliance_report")
    => /\ result.kind = "value"
       /\ LET results == call.results
              T == Len(results)
              P == Cardinality({k \in 1..T : results[k].valid})
              lines == SplitLines(result.value)
              status == StatusLines(lines)
              summaries == {i \in 1..Len(lines) : StartsWith(lines[i], "Summary: ")}
          IN /\ Cardinality(summaries) = 1
             /\ \A i \in summaries :
                  /\ lines[i] = "Summary: " \o NatStr(P) \o "/" \o NatStr(T) \o " tests passed"
                  /\ \A j \in status : j > i
             /\ Cardinality(status) = T
             /\ Cardinality({i \in status : StartsWith(lines[i], "[PASS] ")}) = P
             /\ \A k \in 1..T : \A at \in status :
                  Cardinality({j \in status : j <= at}) = k
                  => LET r == results[k]
                         shown == IF r.valid THEN <<>> ELSE r.errors
                     IN /\ lines[at] = (IF r.valid THEN "[PASS] " ELSE "[FAIL] ") \o r.name
                        /\ at + Len(shown) < Len(lines)
                        /\ \A j \in 1..Len(shown) : lines[at + j] = "  - " \o shown[j]
                        /\ ~StartsWith(lines[at + Len(shown) + 1], "  - ")

\* a report of three results in which the second failed with two errors and
\* the third passed
C25_Witness ==
    /\ phase = "done" /\ call.op = "generate_compliance_report" /\ result.kind = "value"
    /\ Len(call.results) = 3
    /\ ~call.results[2].valid /\ Len(call.results[2].errors) = 2
    /\ call.results[3].valid
    /\ Contains(result.value, "\n[PASS] " \o call.results[3].name \o "\n")

\* the arguments of the run and how it ended
Args == call.args
Ended == result.value

\* C26: a run of main with --file or --api ends with a result for the file,
\* or for each endpoint in order, whatever the earlier ones gave; its exit
\* code is 0 if every result is valid and 1 otherwise, with and without
\* --report; a run with neither ends with exit code 1 and no result.
C26_ExitCode ==
    (phase = "done" /\ call.op = "main")
    => /\ result.kind = "exit"
       /\ LET loaded == LoadedSchemas(<<>>, call.files) IN
          IF Args.file.t = "str" /\ Args.file.s # ""
          THEN /\ Len(Ended.results) = 1
               /\ LET r == ValidateFileResult(loaded, call.file, Args.file.s, call.document,
                                              Found(<<>>))
                  IN Ended.results[1] = TestResult("File: " \o Args.file.s, r.valid, r.errors)
          ELSE IF Args.api.t = "str" /\ Args.api.s # ""
          THEN /\ Len(Ended.results) = Len(call.responses)
               /\ Len(Ended.results) = (IF Args.endpoint = Null THEN 2 ELSE 1)
               /\ \A i \in 1..Len(call.responses) :
                    LET r == ValidateApiResult(loaded, call.responses[i], <<>>)
                    IN /\ r.kind = "return"
                       /\ Ended.results[i].valid = r.valid
                       /\ Ended.results[i].errors = r.errors
          ELSE Ended.results = <<>> /\ Ended.code = 1
       /\ Ended.code = (IF Len(Ended.results) > 0
                           /\ (\A i \in 1..Len(Ended.results) : Ended.results[i].valid)
                        THEN 0 ELSE 1)
       /\ Ended.report # Null <=> (Args.report # Null /\ Len(Ended.results) > 0)

----------------------------------------------------------------------------
(* Validations side by side *)

\* validate_document run alone on the arguments thread t was called with
Alone(t) ==
    Validate(schemas, threads[t].input[1], threads[t].input[2], threads[t].input[3])

\* C27: with the schemas loaded, every validate_document call that ends
\* among calls of other threads, interleaved step by step in any order, ends
\* with the result it gives when run alone on its arguments; and no step of a
\* call writes the schemas mapping or anything another call holds (its
\* document, its errors, its profile).
C27_NoInterference ==
    /\ [](\A t \in Threads : threads[t].pc = "done" => threads[t].result = Alone(t))
    /\ [][/\ schemas' = schemas
          /\ \A t \in Threads :
               threads'[t] # threads[t] => \A u \in Threads \ {t} : threads'[u] = threads[u]]_vars

\* two calls that overlapped have both ended, one with schema and rule
\* errors and one valid
C27_Witness ==
    \E t, u \in Threads :
        /\ threads[t].pc = "done" /\ threads[u].pc = "done"
        /\ threads[t].result.kind = "return" /\ Len(threads[t].result.errors) = 2
        /\ StartsWith(threads[t].result.errors[1], "Schema validation error: ")
        /\ threads[u].result = Result(TRUE, <<>>)

----------------------------------------------------------------------------
(* The mock server *)

\* the status a stored project must have for the operation to go on
RequiredStatus(op) ==
    CASE op \in {"update_project", "submit_project"} -> "draft"
      [] op = "approve_project" -> "submitted"
      [] op = "create_mrv_report" -> "approved"

\* the stores are as they were before the request
StoresUnchanged == projects_db' = projects_db /\ mrv_db' = mrv_db

\* C28: in every step that serves update_project, submit_project,
\* approve_project or create_mrv_report for a project id: an id that is not
\* stored is answered 404 and a stored project whose status is not the one
\* the operation requires (draft, draft, submitted, approved) is answered 400,
\* both leaving projects_db and mrv_db unchanged; otherwise the call succeeds,
\* a submit leaving the project "submitted" with a ledger_reference and an
\* approve leaving it "approved".
C28_StatusGuards ==
    [][LET op == request'.op
           id == request'.project_id
       IN op \in {"update_project", "submit_project", "approve_project", "create_mrv_report"}
          => IF id \notin DOMAIN projects_db
             THEN reply'.status_code = 404 /\ StoresUnchanged
             ELSE IF projects_db[id].status # RequiredStatus(op)
             THEN reply'.status_code = 400 /\ StoresUnchanged
             ELSE /\ reply'.status_code \in {200, 201}
                  /\ op = "submit_project"
                       => /\ projects_db'[id].status = "submitted"
                          /\ projects_db'[id].ledger_reference # Null
                  /\ op = "approve_project" => projects_db'[id].status = "approved"
                  /\ op = "create_mrv_report"
                       => \E m \in DOMAIN mrv_db' \ DOMAIN mrv_db : mrv_db'[m].project_id = id]_vars

\* a submit of a project that was submitted and approved before, with the
\* ledger reference of its submit, was answered 400
C28_Witness ==
    /\ request.op = "submit_project"
    /\ reply.status_code = 400
    /\ request.project_id \in DOMAIN projects_db
    /\ projects_db[request.project_id].status = "approved"
    /\ projects_db[request.project_id].ledger_reference = MintedLedger

\* the status of the project stored under id in db, "" when none is
StatusIn(db, id) == IF id \in DOMAIN db THEN db[id].status ELSE ""

\* C30: in every step of the server, a stored project that becomes
\* "submitted" does so by submit_project on it, from "draft"; one that becomes
\* "approved" does so by approve_project on it, from "submitted"; and an MRV
\* report is stored only for a project stored as "approved" -- so never by
\* create_project or update_project.
C30_ApprovedBySubmitThenApprove ==
    [][/\ \A id \in DOMAIN projects_db' :
            LET before == StatusIn(projects_db, id)
                after == projects_db'[id].status
            IN /\ (after = "submitted" /\ before # "submitted")
                    => /\ request'.op = "submit_project" /\ request'.project_id = id
                       /\ before = "draft"
               /\ (after = "approved" /\ before # "approved")
                    => /\ request'.op = "approve_project" /\ request'.project_id = id
                       /\ before = "submitted"
       /\ \A m \in DOMAIN mrv_db' \ DOMAIN mrv_db :
            StatusIn(projects_db, mrv_db'[m].project_id) = "approved"]_vars

============================================================================
